---- MODULE Spec2Model ----
(***************************************************************************)
(* A model of the named-pipe command transport of quickbuddy (commands.go) *)
(* and of the file-system probes it rests on (util.go).                    *)
(*                                                                         *)
(* Spec           : the contending clients                                 *)
(*                  (ExecuteDaemonOnServerWithCallback) and the servers    *)
(*                  (RunServer) sharing one command FIFO and its lock file.*)
(* ContendSpec    : non-blocking clients after an earlier caller, one      *)
(*                  server.                                                *)
(* BlockingSpec   : blocking clients after an earlier caller, one server,  *)
(*                  every started process scheduled fairly.                *)
(* StatusSpec     : WaitUntilDone reading the status FIFO that the         *)
(*                  in-container side writes.                              *)
(* StatusFairSpec : the same, reader and writer scheduled fairly.          *)
(* ContainerSpec  : the lifecycle operations of one Container              *)
(*                  (container.go) over its paths, its mount and the       *)
(*                  runtime's control group.                               *)
(* RenderSpec     : GetCgroupInfoBytes (cgroups.go) called on a CgroupInfo.*)
(* FlockSpec      : blocking clients and one server whose flock on the     *)
(*                  lock file can fail.                                    *)
(* NetSpec        : WriteNetworkConfiguration (container.go) on the        *)
(*                  network files of a rootfs.                             *)
(***************************************************************************)
EXTENDS Integers, Sequences, FiniteSets, TLC

\* ------------------------------------------------------------------ bounds
NClients == 2
NServers == 2
MaxArgs == 1
MaxRecords == 3
MaxMounts == 2
MaxValues == 2
MaxRenders == 2
MaxWords == 2

\* The clients that contend for the FIFO, and with them one earlier caller:
\* the calls that the endpoint's clients make.
Clients == 1..NClients
Callers == 1..(NClients + 1)
Servers == 1..NServers

\* ------------------------------------------------------------ the alphabet
Sentinel == "-*-EOFENDEOFEND-*-"
ControlVerbs == {"@restart", "@exit", "@alive"}

\* argv of a request: a control verb alone, or a command and its arguments,
\* MaxArgs words at most
ArgvInputs ==
    {<<v>> : v \in ControlVerbs} \cup
    {[i \in 1..n |-> IF i = 1 THEN "cmd" ELSE "arg"] : n \in 1..MaxArgs}

\* the callback of a request: cb = FALSE is the nil callback
CallbackInputs ==
    {[cb |-> FALSE, out |-> FALSE, err |-> FALSE],
     [cb |-> TRUE, out |-> FALSE, err |-> FALSE]}

\* a request: argv and callback; the control verbs are sent with a nil callback
\* (RequestServerShutdown, RequestServerRestart, WaitUntilServerIsAlive)
RequestInputs ==
    {r \in {[args |-> a, cb |-> k.cb, out |-> k.out, err |-> k.err] :
                a \in ArgvInputs, k \in CallbackInputs} :
        r.args[1] \in ControlVerbs => ~r.cb}

NoRequest == [args |-> <<"@alive">>, cb |-> FALSE, out |-> FALSE, err |-> FALSE]

VARIABLES
    fkind,      \* what is at the command FIFO's path: "absent", "fifo" or "regular"
    readers,    \* servers holding the FIFO open for reading (a blocked open counts)
    writers,    \* clients holding the FIFO open for writing (a blocked open counts)
    buf,        \* the pipe's buffer: tokens written and not yet read
    cmdLock,    \* the client holding the advisory lock on the FIFO (a set of 0 or 1)
    srvLock,    \* the server holding the advisory lock on the lock file
    cpc,        \* each client's position in ExecuteDaemonOnServerWithCallback
    creq,       \* each client's request: args and callback
    cnb,        \* the endpoint's ClientNonBlocking
    cidx,       \* each client's index into the tokens it is writing
    cerr,       \* each client's local variable err: TRUE when it holds an error
    cres,       \* each client's returned value
    ctmp,       \* each client's temporary directory and status FIFO exist
    spc,        \* each server's position in RunServer
    snb,        \* the endpoint's ServerNonBlocking
    sargs,      \* each server's arg_lists of the current batch
    sk,         \* each server's index k into arg_lists while dispatching
    sres,       \* each server's returned value
    seen,       \* history: the frames the servers completed on a sentinel, in order
    wrote,      \* history: the tokens of each client that reached the pipe
    lockLog,    \* history: acquisitions and releases of the client lock, in order
    refused,    \* history: who held the client lock when a client was refused it
    ran,        \* history: the lists of arg_lists the servers have dispatched
    script,     \* the records the in-container side reports on the status FIFO
    widx,       \* the index of the next record it writes
    wpc,        \* its position: "closed", "openwait", "open0", "open1", "done"
    stw,        \* a writer holds the status FIFO open (a blocked open counts)
    stbuf,      \* the status pipe's buffer: lines written and not yet read
    rpc,        \* the status reader's position in WaitUntilDone
    rfd,        \* the reader holds a descriptor on the status FIFO
    rst,        \* the reader's locals: terminated, signal_codes, exit_code, pid,
                \* err_occurred
    rlines,     \* history: the lines the reader has processed
    handled,    \* how many times HandleTerminate was invoked
    store,      \* the result HandleTerminate received
    rres,       \* the value WaitUntilDone returned
    capt,       \* the callback's choices: store stdout, store stderr, block
    arts,       \* the status artifacts that exist: of "tmp", "status", "stdout",
                \* "stderr"
    rlog,       \* history: what WaitUntilDone did after its loop, in order
    herr,       \* what HandleError was invoked with ("none": not invoked)
    cfs,        \* the container's paths on the host: which of them exist
    mnt,        \* how many CoW mounts are stacked on rootfs
    run,        \* the runtime's control-group directory of the container exists
    fifos,      \* the users whose command FIFO exists in the container
    env,        \* what the container was made from: image set, cache, cgroup info
    lastOp,     \* the last completed operation: what it found, did and returned
    netfs,      \* the network files under rootfs/etc: whether each is there, its text
    netres,     \* what WriteNetworkConfiguration returned ("none": not called)
    cginfo,     \* a CgroupInfo: the value lists of the keys it holds
    rendered    \* what the calls of GetCgroupInfoBytes on it returned, in order

pipeVars == <<fkind, readers, writers, buf>>
clientVars == <<cpc, creq, cnb, cidx, cerr, cres, ctmp>>
serverVars == <<spc, snb, sargs, sk, sres>>
histVars == <<seen, wrote, lockLog, refused>>
transportVars == <<pipeVars, cmdLock, srvLock, clientVars, serverVars, histVars, ran>>
artVars == <<capt, arts, rlog, herr>>
statusVars == <<script, widx, wpc, stw, stbuf, rpc, rfd, rst, rlines, handled, store, rres,
                artVars>>
netVars == <<netfs, netres>>
containerVars == <<cfs, mnt, run, fifos, env, lastOp, netVars>>
renderVars == <<cginfo, rendered>>
vars == <<transportVars, statusVars, containerVars, renderVars>>

\* --------------------------------------------------------------- util.go
FileExists(kind) == kind # "absent"

IsFIFOAny(kind) == kind # "absent"

IsFIFO(kind) == kind = "fifo"

\* ------------------------------------------------- the frame of a request
IsControl(word) == word \in ControlVerbs

\* The tokens written before the argv: nothing for a control verb.
Header(req) ==
    IF IsControl(req.args[1]) THEN <<>>
    ELSE <<"iexec">> \o
         (IF req.cb
          THEN <<"-s", "status">> \o
               (IF req.out THEN <<"-o", "stdout">> ELSE <<>>) \o
               (IF req.err THEN <<"-e", "stderr">> ELSE <<>>) \o
               <<"--">>
          ELSE <<>>)

\* The write of "--" is the one header write whose error is not kept in err.
KeepsErr(word) == word # "--"

Tok(c, word) == [o |-> c, t |-> word]

Frame(c) == [i \in 1..Len(Header(creq[c]) \o creq[c].args) |->
                Tok(c, (Header(creq[c]) \o creq[c].args)[i])]

\* ------------------------------------------------------ the pipe (FIFO)
\* A write reaches the buffer while some reader holds the pipe; with no
\* reader it fails (EPIPE) and the token is dropped.
CanWrite == readers # {}

\* The kernel frees the buffer when the last descriptor on the pipe closes.
BufAfterClose(rs, ws) == IF rs = {} /\ ws = {} THEN <<>> ELSE buf

\* A server blocked in ReadLine is woken by the write that fills the pipe, and
\* no other step depends on whether it has run yet: its read goes first, and
\* every other step waits for it.
ReadPending == \E s \in Servers : spc[s] = "read" /\ buf # <<>>

\* ------------------------------------------------------------ the locks
\* flock(LOCK_EX) on the command FIFO succeeds when no other client holds it.
MayLockCmdAlways(c) == TRUE

MayLockCmd(c) == cmdLock = {}

\* flock(LOCK_EX) on the lock file succeeds when no other server holds it.
MayLockSrvAlways(s) == TRUE

MayLockSrv(s) == srvLock = {}

\* ---------------------------------------------------------------- clients
\* A server between its lock acquisition and its return or restart.
Serving(s) == spc[s] \in {"check", "openwait", "read", "eof", "dispatch"}

\* A return that goes back to try_again instead.
ClientReturnRetry(c, res) ==
    /\ cpc' = [cpc EXCEPT ![c] = "lock"]
    /\ cres' = [cres EXCEPT ![c] = res]

ClientReturn(c, res) ==
    /\ cpc' = [cpc EXCEPT ![c] = "done"]
    /\ cres' = [cres EXCEPT ![c] = res]

\* One Fprintf of `word` on the FIFO; ok tells whether it reached the buffer.
PipeWrite(c, word, ok) ==
    /\ ok = CanWrite
    /\ buf' = IF ok THEN Append(buf, Tok(c, word)) ELSE buf
    /\ wrote' = IF ok THEN [wrote EXCEPT ![c] = Append(@, Tok(c, word))] ELSE wrote

\* Entry: the status artifacts of a callback, the test of the path, then
\* os.OpenFile(O_WRONLY): the client counts as a writer at once and the open
\* returns when a reader holds the pipe; a server blocked in its own open is
\* released by it.
Call(c) ==
    /\ ~ReadPending
    /\ cpc[c] = "idle"
    /\ \A d \in Callers : d < c => cpc[d] # "idle"    \* numbered in the order they call
    /\ \E r \in RequestInputs :
          /\ creq' = [creq EXCEPT ![c] = r]
          /\ ctmp' = [ctmp EXCEPT ![c] = r.cb]
    /\ IF FileExists(fkind)
       THEN IF ~IsFIFO(fkind)
            THEN /\ ClientReturn(c, "NotAFifo")
                 /\ UNCHANGED <<writers, spc>>
            ELSE /\ writers' = writers \cup {c}
                 /\ cpc' = [cpc EXCEPT ![c] = IF readers # {} THEN "lock" ELSE "openwait"]
                 /\ spc' = [s \in Servers |-> IF spc[s] = "openwait" THEN "read" ELSE spc[s]]
                 /\ cres' = cres
       ELSE /\ ClientReturn(c, "NoFifo")
            /\ UNCHANGED <<writers, spc>>
    /\ UNCHANGED <<fkind, readers, buf, cmdLock, srvLock, cnb, cidx, cerr,
                   snb, sargs, sk, sres, histVars>>
    /\ UNCHANGED <<statusVars, containerVars, renderVars>>
    /\ UNCHANGED ran

\* The lock is acquired: the first write is a header token or, for a control
\* verb, the first argv token.
ClientLockAcquire(c) ==
    /\ ~ReadPending
    /\ cpc[c] = "lock"
    /\ MayLockCmd(c)
    /\ cmdLock' = cmdLock \cup {c}
    /\ lockLog' = Append(lockLog, <<"acq", c>>)
    /\ cpc' = [cpc EXCEPT ![c] = IF Header(creq[c]) = <<>> THEN "args" ELSE "hdr"]
    /\ cidx' = [cidx EXCEPT ![c] = 1]
    /\ cerr' = [cerr EXCEPT ![c] = FALSE]
    /\ UNCHANGED <<pipeVars, srvLock, creq, cnb, cres, ctmp, serverVars, seen, wrote, refused>>
    /\ UNCHANGED <<statusVars, containerVars, renderVars>>
    /\ UNCHANGED ran

\* LOCK_NB and the lock is held: EWOULDBLOCK, close, return the error.
ClientLockContended(c) ==
    /\ ~ReadPending
    /\ cpc[c] = "lock"
    /\ ~MayLockCmd(c)
    /\ cnb
    /\ writers' = writers \ {c}
    /\ buf' = BufAfterClose(readers, writers')
    /\ ClientReturn(c, "LockContended")
    /\ refused' = [refused EXCEPT ![c] = cmdLock]
    /\ UNCHANGED <<fkind, readers, cmdLock, srvLock, creq, cnb, cidx, cerr, ctmp,
                   serverVars, seen, wrote, lockLog>>
    /\ UNCHANGED <<statusVars, containerVars, renderVars>>
    /\ UNCHANGED ran

\* A header token; after the last one err decides: return it, or go on.
ClientWriteHeader(c) ==
    /\ ~ReadPending
    /\ cpc[c] = "hdr"
    /\ LET word == Header(creq[c])[cidx[c]]
           last == cidx[c] = Len(Header(creq[c]))
       IN \E ok \in BOOLEAN :
            /\ PipeWrite(c, word, ok)
            /\ LET e == IF KeepsErr(word) THEN ~ok ELSE cerr[c]
               IN /\ cerr' = [cerr EXCEPT ![c] = e]
                  /\ IF last /\ e
                     THEN ClientReturn(c, "WriteError") /\ cidx' = cidx
                     ELSE /\ cres' = cres
                          /\ cpc' = [cpc EXCEPT ![c] = IF last THEN "args" ELSE "hdr"]
                          /\ cidx' = [cidx EXCEPT ![c] = IF last THEN 1 ELSE @ + 1]
    /\ UNCHANGED <<fkind, readers, writers, cmdLock, srvLock, creq, cnb, ctmp,
                   serverVars, seen, lockLog, refused>>
    /\ UNCHANGED <<statusVars, containerVars, renderVars>>
    /\ UNCHANGED ran

\* An argv token; a failed write goes to the sentinel of the error path.
ClientWriteArg(c) ==
    /\ ~ReadPending
    /\ cpc[c] = "args"
    /\ LET last == cidx[c] = Len(creq[c].args)
       IN \E ok \in BOOLEAN :
            /\ PipeWrite(c, creq[c].args[cidx[c]], ok)
            /\ cerr' = [cerr EXCEPT ![c] = ~ok]
            /\ cpc' = [cpc EXCEPT ![c] =
                         IF ~ok THEN "fsent" ELSE IF last THEN "sent" ELSE "args"]
            /\ cidx' = [cidx EXCEPT ![c] = IF ok /\ ~last THEN @ + 1 ELSE @]
    /\ UNCHANGED <<fkind, readers, writers, cmdLock, srvLock, creq, cnb, cres, ctmp,
                   serverVars, seen, lockLog, refused>>
    /\ UNCHANGED <<statusVars, containerVars, renderVars>>
    /\ UNCHANGED ran

\* The error path: the sentinel is written, and its result is what returns.
ClientSentinelAfterError(c) ==
    /\ ~ReadPending
    /\ cpc[c] = "fsent"
    /\ \E ok \in BOOLEAN :
          /\ PipeWrite(c, Sentinel, ok)
          /\ cerr' = [cerr EXCEPT ![c] = ~ok]
          /\ ClientReturn(c, IF ok THEN "ok" ELSE "WriteError")
    /\ UNCHANGED <<fkind, readers, writers, cmdLock, srvLock, creq, cnb, cidx, ctmp,
                   serverVars, seen, lockLog, refused>>
    /\ UNCHANGED <<statusVars, containerVars, renderVars>>
    /\ UNCHANGED ran

\* The end-of-command sentinel of the normal path.
ClientSentinel(c) ==
    /\ ~ReadPending
    /\ cpc[c] = "sent"
    /\ \E ok \in BOOLEAN :
          /\ PipeWrite(c, Sentinel, ok)
          /\ cerr' = [cerr EXCEPT ![c] = ~ok]
    /\ cpc' = [cpc EXCEPT ![c] = "unlock"]
    /\ UNCHANGED <<fkind, readers, writers, cmdLock, srvLock, creq, cnb, cidx, cres, ctmp,
                   serverVars, seen, lockLog, refused>>
    /\ UNCHANGED <<statusVars, containerVars, renderVars>>
    /\ UNCHANGED ran

\* flock(LOCK_UN) (its result replaces err), file.Close(), return.
ClientUnlockClose(c) ==
    /\ ~ReadPending
    /\ cpc[c] = "unlock"
    /\ cmdLock' = cmdLock \ {c}
    /\ lockLog' = Append(lockLog, <<"rel", c>>)
    /\ writers' = writers \ {c}
    /\ buf' = BufAfterClose(readers, writers')
    /\ cerr' = [cerr EXCEPT ![c] = FALSE]
    /\ ClientReturn(c, "ok")
    /\ UNCHANGED <<fkind, readers, srvLock, creq, cnb, cidx, ctmp, serverVars, seen, wrote, refused>>
    /\ UNCHANGED <<statusVars, containerVars, renderVars>>
    /\ UNCHANGED ran

\* A return that left the descriptor open: the runtime's finalizer, or the
\* end of the process, closes it and with it drops the lock.
ClientFinalize(c) ==
    /\ ~ReadPending
    /\ cpc[c] = "done"
    /\ c \in writers
    /\ cmdLock' = cmdLock \ {c}
    /\ lockLog' = IF c \in cmdLock THEN Append(lockLog, <<"rel", c>>) ELSE lockLog
    /\ writers' = writers \ {c}
    /\ buf' = BufAfterClose(readers, writers')
    /\ UNCHANGED <<fkind, readers, srvLock, clientVars, serverVars, seen, wrote, refused>>
    /\ UNCHANGED <<statusVars, containerVars, renderVars>>
    /\ UNCHANGED ran

\* ----------------------------------------------------------------- servers
\* The read loop's parse: a sentinel line starts the next list of arg_lists,
\* any other line is appended to the current (last) list.
RECURSIVE ParseLines(_, _)
ParseLines(lists, toks) ==
    IF toks = <<>> THEN lists
    ELSE ParseLines(
           IF Head(toks).t = Sentinel
           THEN Append(lists, <<>>)
           ELSE [lists EXCEPT ![Len(lists)] = Append(@, Head(toks))],
           Tail(toks))

ServerReturnStay(s, res) ==
    /\ spc' = spc
    /\ sres' = [sres EXCEPT ![s] = res]

ServerReturn(s, res) ==
    /\ spc' = [spc EXCEPT ![s] = "done"]
    /\ sres' = [sres EXCEPT ![s] = res]

\* A call of RunServer: the lock file is opened and flock is called on it.
ServerStart(s) ==
    /\ ~ReadPending
    /\ spc[s] = "idle"
    /\ \A r \in Servers : r < s => spc[r] # "idle"    \* numbered in the order they start
    /\ IF MayLockSrv(s)
       THEN /\ srvLock' = srvLock \cup {s}
            /\ spc' = [spc EXCEPT ![s] = "check"]
            /\ sres' = sres
       ELSE IF snb
            THEN ServerReturn(s, "LockContended") /\ srvLock' = srvLock
            ELSE /\ spc' = [spc EXCEPT ![s] = "init"]
                 /\ UNCHANGED <<sres, srvLock>>
    /\ UNCHANGED <<pipeVars, cmdLock, clientVars, snb, sargs, sk, histVars>>
    /\ UNCHANGED <<statusVars, containerVars, renderVars>>
    /\ UNCHANGED ran

\* try_again, or a flock that was waiting: the lock is acquired.
ServerLockAcquire(s) ==
    /\ ~ReadPending
    /\ spc[s] = "init"
    /\ MayLockSrv(s)
    /\ srvLock' = srvLock \cup {s}
    /\ spc' = [spc EXCEPT ![s] = "check"]
    /\ UNCHANGED <<pipeVars, cmdLock, clientVars, snb, sargs, sk, sres, histVars>>
    /\ UNCHANGED <<statusVars, containerVars, renderVars>>
    /\ UNCHANGED ran

\* try_again with LOCK_NB and the lock held: EWOULDBLOCK, return the error.
ServerLockContended(s) ==
    /\ ~ReadPending
    /\ spc[s] = "init"
    /\ ~MayLockSrv(s)
    /\ snb
    /\ ServerReturn(s, "LockContended")
    /\ UNCHANGED <<pipeVars, cmdLock, srvLock, clientVars, snb, sargs, sk, histVars>>
    /\ UNCHANGED <<statusVars, containerVars, renderVars>>
    /\ UNCHANGED ran

\* Top of the loop: the path must be a FIFO and is created when absent; then
\* os.OpenFile(O_RDONLY): the server counts as a reader at once and the open
\* returns when a writer has opened the pipe; clients blocked in their own
\* open are released.
ServerCheckOpen(s) ==
    /\ ~ReadPending
    /\ spc[s] = "check"
    /\ IF FileExists(fkind) /\ ~IsFIFO(fkind)
       THEN /\ ServerReturn(s, "NotAFifo")
            /\ srvLock' = srvLock \ {s}
            /\ UNCHANGED <<fkind, readers, cpc, sargs>>
       ELSE /\ fkind' = "fifo"
            /\ readers' = readers \cup {s}
            /\ spc' = [spc EXCEPT ![s] = IF writers # {} THEN "read" ELSE "openwait"]
            /\ cpc' = [c \in Callers |-> IF cpc[c] = "openwait" THEN "lock" ELSE cpc[c]]
            /\ sargs' = [sargs EXCEPT ![s] = <<<<>>>>]
            /\ UNCHANGED <<sres, srvLock>>
    /\ UNCHANGED <<writers, buf, cmdLock, creq, cnb, cidx, cerr, cres, ctmp, snb, sk, histVars>>
    /\ UNCHANGED <<statusVars, containerVars, renderVars>>
    /\ UNCHANGED ran

\* ReadLine returns the lines in the pipe; they are parsed into arg_lists.
ServerRead(s) ==
    /\ spc[s] = "read"
    /\ buf # <<>>
    /\ LET lists == ParseLines(sargs[s], buf)
       IN /\ sargs' = [sargs EXCEPT ![s] = lists]
          /\ seen' = seen \o SubSeq(lists, Len(sargs[s]), Len(lists) - 1)
    /\ buf' = <<>>
    /\ UNCHANGED <<fkind, readers, writers, cmdLock, srvLock, clientVars,
                   spc, snb, sk, sres, wrote, lockLog, refused>>
    /\ UNCHANGED <<statusVars, containerVars, renderVars>>
    /\ UNCHANGED ran

\* ReadLine returns io.EOF: the pipe is empty and no writer holds it.
ServerEOF(s) ==
    /\ ~ReadPending
    /\ spc[s] = "read"
    /\ buf = <<>>
    /\ writers = {}
    /\ spc' = [spc EXCEPT ![s] = "eof"]
    /\ UNCHANGED <<pipeVars, cmdLock, srvLock, clientVars, snb, sargs, sk, sres, histVars>>
    /\ UNCHANGED <<statusVars, containerVars, renderVars>>
    /\ UNCHANGED ran

\* file.Close(), then the dispatch loop starts at k = 0.
ServerClose(s) ==
    /\ ~ReadPending
    /\ spc[s] = "eof"
    /\ readers' = readers \ {s}
    /\ buf' = BufAfterClose(readers', writers)
    /\ spc' = [spc EXCEPT ![s] = "dispatch"]
    /\ sk' = [sk EXCEPT ![s] = 1]
    /\ UNCHANGED <<fkind, writers, cmdLock, srvLock, clientVars, snb, sargs, sres, histVars>>
    /\ UNCHANGED <<statusVars, containerVars, renderVars>>
    /\ UNCHANGED ran

\* The dispatch loop entered while the read loop is still reading.
DispatchingEarly(s) == spc[s] \in {"read", "dispatch"} /\ sk[s] <= Len(sargs[s])

Dispatching(s) == spc[s] = "dispatch" /\ sk[s] <= Len(sargs[s])

FirstWordPlain(s) == "cmd"

FirstWord(s) == sargs[s][sk[s]][1].t

\* What the dispatch loop did with the list at k: the server, the list and
\* the branch taken.
Dispatched(s, branch) == [s |-> s, f |-> sargs[s][sk[s]], r |-> branch]

\* "@exit": unlock and return.
ServerExit(s) ==
    /\ ~ReadPending
    /\ Dispatching(s)
    /\ Len(sargs[s][sk[s]]) >= 1
    /\ FirstWord(s) = "@exit"
    /\ srvLock' = srvLock \ {s}
    /\ ServerReturn(s, "ok")
    /\ UNCHANGED <<pipeVars, cmdLock, clientVars, snb, sargs, sk, histVars>>
    /\ UNCHANGED <<statusVars, containerVars, renderVars>>
    /\ ran' = Append(ran, Dispatched(s, "exit"))

\* "@restart": unlock, close the lock file, goto try_again.
ServerRestart(s) ==
    /\ ~ReadPending
    /\ Dispatching(s)
    /\ Len(sargs[s][sk[s]]) >= 1
    /\ FirstWord(s) = "@restart"
    /\ srvLock' = srvLock \ {s}
    /\ spc' = [spc EXCEPT ![s] = "init"]
    /\ UNCHANGED <<pipeVars, cmdLock, clientVars, snb, sargs, sk, sres, histVars>>
    /\ UNCHANGED <<statusVars, containerVars, renderVars>>
    /\ ran' = Append(ran, Dispatched(s, "restart"))

\* "@alive": continue with the next list.
ServerAlive(s) ==
    /\ ~ReadPending
    /\ Dispatching(s)
    /\ Len(sargs[s][sk[s]]) >= 1
    /\ FirstWord(s) = "@alive"
    /\ sk' = [sk EXCEPT ![s] = @ + 1]
    /\ UNCHANGED <<pipeVars, cmdLock, srvLock, clientVars, spc, snb, sargs, sres, histVars>>
    /\ UNCHANGED <<statusVars, containerVars, renderVars>>
    /\ ran' = Append(ran, Dispatched(s, "alive"))

\* Any other first word is run as a command; a failed run is returned.
ServerRun(s) ==
    /\ ~ReadPending
    /\ Dispatching(s)
    /\ Len(sargs[s][sk[s]]) >= 1
    /\ FirstWord(s) \notin ControlVerbs
    /\ \E run_ok \in BOOLEAN :
          IF run_ok
          THEN /\ sk' = [sk EXCEPT ![s] = @ + 1]
               /\ ran' = Append(ran, Dispatched(s, "run"))
               /\ UNCHANGED <<spc, sres, srvLock>>
          ELSE /\ ServerReturn(s, "RunError")
               /\ ran' = Append(ran, Dispatched(s, "failed"))
               /\ srvLock' = srvLock \ {s}
               /\ sk' = sk
    /\ UNCHANGED <<pipeVars, cmdLock, clientVars, snb, sargs, histVars>>
    /\ UNCHANGED <<statusVars, containerVars, renderVars>>

\* An empty list holds no command: cmd stays nil.
ServerSkipEmpty(s) ==
    /\ ~ReadPending
    /\ Dispatching(s)
    /\ Len(sargs[s][sk[s]]) = 0
    /\ sk' = [sk EXCEPT ![s] = @ + 1]
    /\ UNCHANGED <<pipeVars, cmdLock, srvLock, clientVars, spc, snb, sargs, sres, histVars>>
    /\ UNCHANGED <<statusVars, containerVars, renderVars>>
    /\ UNCHANGED ran

\* All lists dispatched, and the server returns instead of looping.
ServerLoopReturn(s) ==
    /\ ~ReadPending
    /\ spc[s] = "dispatch"
    /\ sk[s] > Len(sargs[s])
    /\ srvLock' = srvLock \ {s}
    /\ ServerReturn(s, "ok")
    /\ UNCHANGED <<pipeVars, cmdLock, clientVars, snb, sargs, sk, histVars>>
    /\ UNCHANGED <<statusVars, containerVars, renderVars>>
    /\ UNCHANGED ran

\* All lists dispatched: back to the top of the loop.
ServerLoop(s) ==
    /\ ~ReadPending
    /\ spc[s] = "dispatch"
    /\ sk[s] > Len(sargs[s])
    /\ spc' = [spc EXCEPT ![s] = "check"]
    /\ UNCHANGED <<pipeVars, cmdLock, srvLock, clientVars, snb, sargs, sk, sres, histVars>>
    /\ UNCHANGED <<statusVars, containerVars, renderVars>>
    /\ UNCHANGED ran

\* ------------------------------------------- the status FIFO: its records
\* A line of the status FIFO is a sequence of characters (one-character
\* strings), so that HasPrefix, Split and ParseInt are computed as the code
\* computes them.
Digits == <<"0", "1", "2", "3", "4", "5", "6", "7", "8", "9">>

DigitChars == {Digits[i] : i \in 1..Len(Digits)}

DigitVal(ch) == (CHOOSE i \in 1..Len(Digits) : Digits[i] = ch) - 1

\* The decimal text of a natural number, as the in-container side prints it.
RECURSIVE Itoa(_)
Itoa(n) == IF n < Len(Digits) THEN <<Digits[n + 1]>>
           ELSE Itoa(n \div Len(Digits)) \o <<Digits[(n % Len(Digits)) + 1]>>

KindText(kind) ==
    CASE kind = "kill" -> <<"k", "i", "l", "l">>
      [] kind = "exit" -> <<"e", "x", "i", "t">>
      [] kind = "pid"  -> <<"p", "i", "d">>
      [] kind = "stop" -> <<"s", "t", "o", "p">>
      [] kind = "cont" -> <<"c", "o", "n", "t">>
      [] kind = "err"  -> <<"e", "r", "r">>
      [] OTHER         -> <<"n", "o", "t", "e">>

\* The line the in-container side writes for a record: "<kind> <number>",
\* and the bare word for "err" and for a record the reader does not know.
FormatRecord(rec) ==
    IF rec.k \in {"err", "note"} THEN KindText(rec.k)
    ELSE KindText(rec.k) \o <<" ">> \o Itoa(rec.n)

Rec(kind, num) == [k |-> kind, n |-> num]

RecordInputs ==
    {Rec("pid", 7), Rec("exit", 0), Rec("exit", 3), Rec("kill", 9),
     Rec("stop", 19), Rec("cont", 18), Rec("err", 0), Rec("note", 0)}

ScriptInputs == UNION {[1..n -> RecordInputs] : n \in 0..MaxRecords}

\* strings.HasPrefix
HasPrefix(line, prefix) ==
    /\ Len(line) >= Len(prefix)
    /\ SubSeq(line, 1, Len(prefix)) = prefix

\* strings.Split(line, " "): the fields between single spaces.
RECURSIVE Split(_)
Split(line) ==
    IF \A i \in 1..Len(line) : line[i] # " " THEN <<line>>
    ELSE LET i == CHOOSE j \in 1..Len(line) :
                      /\ line[j] = " "
                      /\ \A h \in 1..(j - 1) : line[h] # " "
         IN <<SubSeq(line, 1, i - 1)>> \o Split(SubSeq(line, i + 1, Len(line)))

RECURSIVE ParseDigits(_, _)
ParseDigits(acc, text) ==
    IF text = <<>> THEN acc
    ELSE ParseDigits(acc * Len(Digits) + DigitVal(Head(text)), Tail(text))

\* strconv.ParseInt(text, 10, 64) with its error ignored: an optional sign
\* and at least one digit, and 0 for anything else.
ParseInt(text) ==
    LET signed == text # <<>> /\ Head(text) \in {"+", "-"}
        body   == IF signed THEN Tail(text) ELSE text
    IN IF body = <<>> \/ \E i \in 1..Len(body) : body[i] \notin DigitChars THEN 0
       ELSE IF signed /\ Head(text) = "-" THEN 0 - ParseDigits(0, body)
       ELSE ParseDigits(0, body)

\* vals[1] of the split line, parsed (len(vals) > 1 is checked by the code).
Code(line) == ParseInt(Split(line)[2])

HasCode(line) == Len(Split(line)) > 1

ReaderLocalsZero ==
    [terminated |-> FALSE, signal_codes |-> <<>>, exit_code |-> 0, pid |-> 0,
     err_occurred |-> FALSE]

ReaderLocals ==
    [terminated |-> FALSE, signal_codes |-> <<>>, exit_code |-> -1, pid |-> 0,
     err_occurred |-> FALSE]

\* One iteration of the inner read loop of WaitUntilDone on a whole line.
ProcessLine(st, line) ==
    IF HasPrefix(line, KindText("kill") \o <<" ">>) THEN
        [st EXCEPT !.terminated = TRUE,
                   !.signal_codes = IF HasCode(line) THEN Append(@, Code(line)) ELSE @]
    ELSE IF HasPrefix(line, KindText("exit") \o <<" ">>) THEN
        [st EXCEPT !.terminated = TRUE,
                   !.exit_code = IF HasCode(line) THEN Code(line) ELSE @]
    ELSE IF HasPrefix(line, KindText("pid") \o <<" ">>) THEN
        [st EXCEPT !.terminated = TRUE,
                   !.pid = IF HasCode(line) THEN Code(line) ELSE @]
    ELSE IF \/ HasPrefix(line, KindText("stop") \o <<" ">>)
            \/ HasPrefix(line, KindText("cont") \o <<" ">>) THEN
        [st EXCEPT !.signal_codes = IF HasCode(line) THEN Append(@, Code(line)) ELSE @]
    ELSE IF HasPrefix(line, KindText("err")) THEN
        [st EXCEPT !.err_occurred = TRUE, !.terminated = TRUE]
    ELSE st

\* The test after the loop that decides between the error and the handler.
ErrOccurredNever(st) == FALSE

ErrOccurred(st) == st.err_occurred

RECURSIVE ProcessLines(_, _)
ProcessLines(st, lines) ==
    IF lines = <<>> THEN st
    ELSE ProcessLines(ProcessLine(st, Head(lines)), Tail(lines))

NoResult == [SignalCodes |-> <<>>, ExitCode |-> 0, Pid |-> 0]

\* The callback of a request: ShouldStoreStandardOutput,
\* ShouldStoreStandardError, ShouldBlockUntilTerminated.
NoCallback == [out |-> FALSE, err |-> FALSE, block |-> TRUE]

\* The callbacks of the status model store both streams or neither.
StatusCallbackInputs ==
    {cb \in [out : BOOLEAN, err : BOOLEAN, block : BOOLEAN] : cb.out = cb.err}

\* stdout_fn and stderr_fn are set for the streams the callback stores.
CaptureFiles(cb) ==
    (IF cb.out THEN {"stdout"} ELSE {}) \cup (IF cb.err THEN {"stderr"} ELSE {})

\* What a call with a callback allocates, with the capture files the
\* in-container side makes when it launches the command.
StatusArtifacts(cb) == {"tmp", "status"} \cup CaptureFiles(cb)

\* ioutil.ReadFile of the capture files named.
ReadEvents(cb) ==
    (IF cb.out THEN <<"read stdout">> ELSE <<>>)
        \o (IF cb.err THEN <<"read stderr">> ELSE <<>>)

\* The os.Remove calls at the end of WaitUntilDone.
RemoveEvents(cb) ==
    <<"remove status">>
        \o (IF cb.out THEN <<"remove stdout">> ELSE <<>>)
        \o (IF cb.err THEN <<"remove stderr">> ELSE <<>>)
        \o <<"remove tmp">>

RemoveDirOutcomesAny(kept) == {TRUE, FALSE}

\* os.Remove(tmp_dir): a directory is removed only when nothing is left in it.
RemoveDirOutcomes(kept) == IF kept = {} THEN {TRUE, FALSE} ELSE {FALSE}

\* The goroutine passes HandleError the caller's err, last assigned by the
\* Flock(LOCK_UN) of a lock that was held, not its own process_err.
GoroutineErr(process_err) == "nil"

\* No status reader has been started and nothing was reported.
StatusQuiet ==
    /\ widx = 1
    /\ wpc = "closed"
    /\ stw = FALSE
    /\ stbuf = <<>>
    /\ rpc = "idle"
    /\ rfd = FALSE
    /\ rst = ReaderLocals
    /\ rlines = <<>>
    /\ handled = 0
    /\ store = NoResult
    /\ rres = "none"

StatusIdle ==
    /\ StatusQuiet
    /\ capt = NoCallback
    /\ arts = {}
    /\ rlog = <<>>
    /\ herr = "none"

\* ------------------------------------------- the container: its file system
\* The paths of a Container object that the lifecycle creates and probes.
ContainerPaths == {"cdir", "rootfs", "meta", "private", "config", "fstab"}

\* The users Execute is called for, and those that have a command FIFO.
Users == {"root", "web", "bob"}
FifoUsers == {"root", "web"}

\* The directories of the read-only branch (the image set's rootfs, or the
\* default cache) that the lifecycle looks for through the mount: /etc and
\* the home directories.
GetHomeDirectory(user) == IF user = "root" THEN "/root" ELSE "/home/" \o user
ImageDirs == {"/etc"} \cup {GetHomeDirectory(u) : u \in Users}
ImageInputs ==
    { {}, {"/etc", "/root"}, {"/etc", "/root", "/home/web"},
      {"/etc", "/root", "/home/web", "/home/bob"} }

\* What a Container object is constructed over: image_set nil ("none"), an
\* image set whose directory is absent ("missing") or exists ("present");
\* whether the default cache directory exists; what the read-only branch
\* holds; whether every key of Cgroup_info is a valid configuration key.
EnvInputs ==
    [img : {"none", "missing", "present"}, cache : BOOLEAN,
     dirs : ImageInputs, cgroupOk : BOOLEAN]

\* No operation yet.
NoOp ==
    [op |-> "none", arg |-> "", res |-> "none",
     pre |-> [created |-> FALSE, mounted |-> FALSE, running |-> FALSE], ev |-> <<>>]

\* No CgroupInfo rendered.
RenderIdle ==
    /\ cginfo = <<>>
    /\ rendered = <<>>

\* A file of rootfs/etc: whether it is there, and its text as words.
NoFile == [there |-> FALSE, text |-> <<>>]
File(text) == [there |-> TRUE, text |-> text]

\* WriteNetworkConfiguration has not been called, on a rootfs with no /etc.
NetIdle ==
    /\ netfs = [etc |-> FALSE, hostname |-> NoFile, hosts |-> NoFile,
                dhcp |-> NoFile, dhcp3 |-> NoFile]
    /\ netres = "none"

ContainerIdle ==
    /\ NetIdle
    /\ cfs = {}
    /\ mnt = 0
    /\ run = FALSE
    /\ fifos = {}
    /\ env = [img |-> "present", cache |-> TRUE,
              dirs |-> {"/etc", "/root", "/home/web"}, cgroupOk |-> TRUE]
    /\ lastOp = NoOp

\* ------------------------------------------------------- the specification
Init ==
    /\ fkind \in {"absent", "fifo", "regular"}
    /\ readers = {}
    /\ writers = {}
    /\ buf = <<>>
    /\ cmdLock = {}
    /\ srvLock = {}
    /\ cpc = [c \in Callers |-> "idle"]
    /\ creq = [c \in Callers |-> NoRequest]
    /\ cnb \in BOOLEAN
    /\ cidx = [c \in Callers |-> 1]
    /\ cerr = [c \in Callers |-> FALSE]
    /\ cres = [c \in Callers |-> "none"]
    /\ ctmp = [c \in Callers |-> FALSE]
    /\ spc = [s \in Servers |-> "idle"]
    /\ snb \in BOOLEAN
    /\ sargs = [s \in Servers |-> <<<<>>>>]
    /\ sk = [s \in Servers |-> 1]
    /\ sres = [s \in Servers |-> "none"]
    /\ seen = <<>>
    /\ wrote = [c \in Callers |-> <<>>]
    /\ lockLog = <<>>
    /\ refused = [c \in Callers |-> {}]
    /\ ran = <<>>
    /\ StatusIdle
    /\ script = <<>>
    /\ ContainerIdle
    /\ RenderIdle

ClientNext(c) ==
    \/ Call(c)
    \/ ClientLockAcquire(c)
    \/ ClientLockContended(c)
    \/ ClientWriteHeader(c)
    \/ ClientWriteArg(c)
    \/ ClientSentinelAfterError(c)
    \/ ClientSentinel(c)
    \/ ClientUnlockClose(c)
    \/ ClientFinalize(c)

ServerNext(s) ==
    \/ ServerStart(s)
    \/ ServerLockAcquire(s)
    \/ ServerLockContended(s)
    \/ ServerCheckOpen(s)
    \/ ServerRead(s)
    \/ ServerEOF(s)
    \/ ServerClose(s)
    \/ ServerExit(s)
    \/ ServerRestart(s)
    \/ ServerAlive(s)
    \/ ServerRun(s)
    \/ ServerSkipEmpty(s)
    \/ ServerLoop(s)

Next ==
    \/ \E c \in Clients : ClientNext(c)
    \/ \E s \in Servers : ServerNext(s)

Spec == Init /\ [][Next]_vars

\* One server alone never finds its lock held.
SoloServerStep(s) ==
    \/ ServerLockAcquire(s)
    \/ ServerCheckOpen(s)
    \/ ServerRead(s)
    \/ ServerEOF(s)
    \/ ServerClose(s)
    \/ ServerExit(s)
    \/ ServerRestart(s)
    \/ ServerAlive(s)
    \/ ServerRun(s)
    \/ ServerSkipEmpty(s)
    \/ ServerLoop(s)

\* The endpoint in non-blocking client mode: clients contending for the lock
\* after an earlier caller, served by one server.
ContendInit == Init /\ cnb /\ snb /\ fkind = "fifo"

ContendNext ==
    \/ \E c \in Callers : ClientNext(c)
    \/ ServerStart(1) \/ SoloServerStep(1)

ContendSpec == ContendInit /\ [][ContendNext]_vars

\* The endpoint in blocking client mode (ClientNonBlocking unset, as
\* NewFIFOCommand leaves it), every started process scheduled again and again:
\* a client that has called, and a server that has started, takes its next
\* step when it can; a descriptor left open is closed in the end.
BlockingInit == Init /\ ~cnb /\ snb /\ fkind = "fifo"

ClientStepBlocking(c) ==
    \/ ClientLockAcquire(c)
    \/ ClientWriteHeader(c)
    \/ ClientWriteArg(c)
    \/ ClientSentinelAfterError(c)
    \/ ClientSentinel(c)
    \/ ClientUnlockClose(c)
    \/ ClientFinalize(c)

BlockingNext ==
    \/ \E c \in Callers : Call(c) \/ ClientStepBlocking(c)
    \/ ServerStart(1) \/ SoloServerStep(1)

BlockingSpec ==
    /\ BlockingInit
    /\ [][BlockingNext]_vars
    /\ \A c \in Callers : WF_vars(ClientStepBlocking(c))
    /\ WF_vars(SoloServerStep(1))

\* The errors flock can return besides EWOULDBLOCK: those the switch of
\* RunServer names, and one it does not name (a file system that does not
\* support flock).
FlockErrnos == {"EBADF", "EINTR", "ENOLCK", "EOPNOTSUPP"}

\* The flock of RunServer fails with an errno other than EWOULDBLOCK: the
\* cases EBADF, EINTR and ENOLCK return an error; the switch has no default,
\* so after any other errno RunServer goes on to the loop, the lock not held.
ServerFlockError(s) ==
    /\ ~ReadPending
    /\ spc[s] \in {"idle", "init"}
    /\ \A r \in Servers : r < s => spc[r] # "idle"
    /\ \E errno \in FlockErrnos :
          IF errno \in {"EBADF", "EINTR", "ENOLCK"}
          THEN ServerReturn(s, errno)
          ELSE /\ spc' = [spc EXCEPT ![s] = "check"]
               /\ sres' = sres
    /\ UNCHANGED <<pipeVars, cmdLock, srvLock, clientVars, snb, sargs, sk, histVars>>
    /\ UNCHANGED <<statusVars, containerVars, renderVars>>
    /\ UNCHANGED ran

\* The endpoint on a system where flock on the lock file can fail, with one
\* server.
FlockInit == Init /\ ~cnb /\ fkind = "fifo"

FlockNext ==
    \/ \E c \in Clients : Call(c) \/ ClientStepBlocking(c)
    \/ ServerStart(1) \/ SoloServerStep(1) \/ ServerFlockError(1)

FlockSpec == FlockInit /\ [][FlockNext]_vars

\* ------------------------------------- the status FIFO: the writing side
\* The in-container side reports the records of its script in order, spread
\* over one or more opens of the status FIFO, at least one record per open.
\* An open for writing counts as a writer at once and blocks until a reader
\* holds the FIFO; it releases a reader blocked in its own open.
WriterOpen ==
    /\ wpc = "closed"
    /\ widx <= Len(script)
    /\ stw' = TRUE
    /\ wpc' = IF rfd THEN "open0" ELSE "openwait"
    /\ rpc' = IF rpc = "openwait" THEN "read" ELSE rpc
    /\ UNCHANGED <<script, widx, stbuf, rfd, rst, rlines, handled, store, rres>>
    /\ UNCHANGED <<artVars, transportVars, containerVars, renderVars>>

\* One record is written as one line; with no reader left the write fails
\* and the line is lost.
WriterWrite ==
    /\ wpc \in {"open0", "open1"}
    /\ widx <= Len(script)
    /\ stbuf' = IF rfd THEN Append(stbuf, FormatRecord(script[widx])) ELSE stbuf
    /\ widx' = widx + 1
    /\ wpc' = "open1"
    /\ UNCHANGED <<script, stw, rpc, rfd, rst, rlines, handled, store, rres>>
    /\ UNCHANGED <<artVars, transportVars, containerVars, renderVars>>

\* The pipe's buffer is freed when its last descriptor is closed.
WriterClose ==
    /\ wpc = "open1"
    /\ stw' = FALSE
    /\ wpc' = IF widx > Len(script) THEN "done" ELSE "closed"
    /\ stbuf' = IF rfd THEN stbuf ELSE <<>>
    /\ UNCHANGED <<script, widx, rpc, rfd, rst, rlines, handled, store, rres>>
    /\ UNCHANGED <<artVars, transportVars, containerVars, renderVars>>

\* ------------------------------------------ the status FIFO: WaitUntilDone
\* The entry of WaitUntilDone: the status FIFO was created by the caller,
\* so the existence and kind checks pass and the locals are initialised.
ReaderStart ==
    /\ rpc = "idle"
    /\ rpc' = "open"
    /\ rst' = ReaderLocals
    /\ UNCHANGED <<script, widx, wpc, stw, stbuf, rfd, rlines, handled, store, rres>>
    /\ UNCHANGED <<artVars, transportVars, containerVars, renderVars>>

\* os.OpenFile(status_fn, O_RDONLY): counts as a reader at once, releases a
\* writer blocked in its open, and blocks until a writer opens the FIFO.  The
\* descriptors of earlier iterations stay open (their Close is deferred to
\* the return), so rfd stays TRUE.
ReaderOpen ==
    /\ rpc = "open"
    /\ rfd' = TRUE
    /\ rpc' = IF stw THEN "read" ELSE "openwait"
    /\ wpc' = IF wpc = "openwait" THEN "open0" ELSE wpc
    /\ UNCHANGED <<script, widx, stw, stbuf, rst, rlines, handled, store, rres>>
    /\ UNCHANGED <<artVars, transportVars, containerVars, renderVars>>

\* The inner loop reads the lines that are in the pipe, each processed in
\* turn; it does not leave the loop on a terminal record.
ReaderRead ==
    /\ rpc = "read"
    /\ stbuf # <<>>
    /\ rst' = ProcessLines(rst, stbuf)
    /\ rlines' = rlines \o stbuf
    /\ stbuf' = <<>>
    /\ UNCHANGED <<script, widx, wpc, stw, rpc, rfd, handled, store, rres>>
    /\ UNCHANGED <<artVars, transportVars, containerVars, renderVars>>

\* ReadLine returns io.EOF: the pipe is empty and no writer holds it.  The
\* outer loop opens the FIFO again unless a terminal record was read.
ReaderEOF ==
    /\ rpc = "read"
    /\ stbuf = <<>>
    /\ ~stw
    /\ rpc' = IF rst.terminated THEN "finish" ELSE "open"
    /\ UNCHANGED <<script, widx, wpc, stw, stbuf, rfd, rst, rlines, handled, store, rres>>
    /\ UNCHANGED <<artVars, transportVars, containerVars, renderVars>>

\* After the loop: the capture files that were asked for are read, whatever
\* the outcome of reading them.  An err record makes WaitUntilDone return an
\* error at once; otherwise the result goes to HandleTerminate, then the
\* status FIFO, the capture files and the directory are removed, and the
\* outcome of the last os.Remove, that of the directory, is returned.  Each
\* os.Remove of a file may fail and leave the file.  The deferred Close calls
\* run at the return.  Called in the background, an error returned makes the
\* caller's goroutine invoke HandleError with the caller's variable err.
ReaderFinish ==
    /\ rpc = "finish"
    /\ IF ErrOccurred(rst)
       THEN /\ rres' = "StatusError"
            /\ rlog' = ReadEvents(capt)
            /\ UNCHANGED <<handled, store, arts>>
       ELSE \E kept \in SUBSET (arts \ {"tmp"}) :
            \E rm_ok \in RemoveDirOutcomes(kept) :
               /\ handled' = handled + 1
               /\ store' = [SignalCodes |-> rst.signal_codes,
                            ExitCode |-> rst.exit_code, Pid |-> rst.pid]
               /\ rlog' = ReadEvents(capt) \o <<"HandleTerminate">> \o RemoveEvents(capt)
               /\ arts' = IF rm_ok THEN kept ELSE kept \cup {"tmp"}
               /\ rres' = IF rm_ok THEN "ok" ELSE "RemoveError"
    /\ herr' = IF ~capt.block /\ rres' # "ok" THEN GoroutineErr(rres') ELSE "none"
    /\ rpc' = "done"
    /\ rfd' = FALSE
    /\ stbuf' = IF stw THEN stbuf ELSE <<>>
    /\ UNCHANGED <<script, widx, wpc, stw, rst, rlines, capt>>
    /\ UNCHANGED <<transportVars, containerVars, renderVars>>

TransportIdle ==
    /\ fkind = "fifo"
    /\ readers = {}
    /\ writers = {}
    /\ buf = <<>>
    /\ cmdLock = {}
    /\ srvLock = {}
    /\ cpc = [c \in Callers |-> "idle"]
    /\ creq = [c \in Callers |-> NoRequest]
    /\ cnb = FALSE
    /\ cidx = [c \in Callers |-> 1]
    /\ cerr = [c \in Callers |-> FALSE]
    /\ cres = [c \in Callers |-> "none"]
    /\ ctmp = [c \in Callers |-> FALSE]
    /\ spc = [s \in Servers |-> "idle"]
    /\ snb = TRUE
    /\ sargs = [s \in Servers |-> <<<<>>>>]
    /\ sk = [s \in Servers |-> 1]
    /\ sres = [s \in Servers |-> "none"]
    /\ seen = <<>>
    /\ wrote = [c \in Callers |-> <<>>]
    /\ lockLog = <<>>
    /\ refused = [c \in Callers |-> {}]
    /\ ran = <<>>

StatusInit ==
    /\ TransportIdle
    /\ StatusQuiet
    /\ script \in ScriptInputs
    /\ capt \in StatusCallbackInputs
    /\ arts = StatusArtifacts(capt)
    /\ rlog = <<>>
    /\ herr = "none"
    /\ ContainerIdle
    /\ RenderIdle

WriterNext == WriterOpen \/ WriterWrite \/ WriterClose

ReaderNext == ReaderStart \/ ReaderOpen \/ ReaderRead \/ ReaderEOF \/ ReaderFinish

StatusNext ==
    \/ WriterOpen
    \/ WriterWrite
    \/ WriterClose
    \/ ReaderStart
    \/ ReaderOpen
    \/ ReaderRead
    \/ ReaderEOF
    \/ ReaderFinish

StatusSpec == StatusInit /\ [][StatusNext]_vars

\* The reader and the in-container side are processes that keep running.
StatusFairSpec ==
    /\ StatusInit
    /\ [][StatusNext]_vars
    /\ WF_vars(WriterNext)
    /\ WF_vars(ReaderNext)

\* ------------------------------------------------------------------ claims
\* The tokens a client's call writes when every write succeeds.
FullFrame(c) == Append(Frame(c), Tok(c, Sentinel))

RECURSIVE Flatten(_)
Flatten(frames) ==
    IF frames = <<>> THEN <<>> ELSE Head(frames) \o Flatten(Tail(frames))

\* The lines the servers have parsed into sentinel-terminated frames, in order.
SeenTokens == Flatten(seen)

\* All clients have returned and closed, and nothing is left to be read.
Quiescent ==
    /\ \A c \in Callers : cpc[c] = "done" /\ c \notin writers
    /\ buf = <<>>
    /\ \A s \in Servers : spc[s] \in {"idle", "init", "openwait", "done"}
    /\ \E s \in Servers : spc[s] # "idle"

\* C1: the frames the server observes are exactly the frames of the clients
\* that returned success: every observed frame is one client's frame, whole
\* and in write order, and once all is quiet each successful client's frame
\* has been observed, one frame per success.
C1_FramesObserved ==
    /\ \A i \in 1..Len(seen) : \E c \in Callers : seen[i] = Frame(c)
    /\ Quiescent =>
          /\ \A c \in Callers : cres[c] = "ok" => \E i \in 1..Len(seen) : seen[i] = Frame(c)
          /\ Len(seen) = Cardinality({c \in Callers : cres[c] = "ok"})

\* a released the client lock before b acquired it
ReleasedBefore(a, b) ==
    \E m, n \in 1..Len(lockLog) :
        m < n /\ lockLog[m] = <<"rel", a>> /\ lockLog[n] = <<"acq", b>>

\* C2: the server sees the clients' tokens, hence their frames, in the order
\* the clients held the write lock: what it sees earlier was written by a
\* client that released the lock before the later one's writer acquired it,
\* and never the other way round.
C2_LockOrder ==
    \A i, j \in 1..Len(SeenTokens) :
        LET a == SeenTokens[i].o
            b == SeenTokens[j].o
        IN a # b =>
             /\ i < j => ReleasedBefore(a, b)
             /\ ReleasedBefore(a, b) => i < j

C2_Witness ==
    /\ Len(seen) >= 2
    /\ \E i, j \in 1..Len(seen) :
          /\ i < j
          /\ seen[i] # <<>> /\ seen[j] # <<>>
          /\ seen[i][1].o # seen[j][1].o

C4_OneWins ==
    \A c \in Callers : refused[c] # {} =>
        /\ cnb
        /\ cres[c] = "LockContended"
        /\ wrote[c] = <<>>
        /\ \A h \in refused[c] :
              cpc[h] = "done" => cres[h] = "ok" /\ wrote[h] = FullFrame(h)

\* C5: in blocking mode no client returns the lock-contended error, and,
\* with every process scheduled fairly, every client waiting for the lock
\* acquires it in the end and writes its frame.
C5_BlockingWaits ==
    /\ [](\A c \in Callers : ~cnb => cres[c] # "LockContended")
    /\ \A c \in Callers :
          (~cnb /\ cpc[c] = "lock" /\ cmdLock # {})
              ~> (<<"acq", c>> \in {lockLog[n] : n \in 1..Len(lockLog)}
                  /\ wrote[c] = FullFrame(c))

\* C10: with a regular file at the FIFO's path every client call returns the
\* not-a-FIFO error, every server that reaches its loop returns it, nobody
\* opens, writes or reads the path, and the file stays a regular file.
C10_State ==
    fkind = "regular" =>
        /\ \A c \in Callers : cpc[c] \in {"idle", "done"}
        /\ \A c \in Callers : cpc[c] = "done" => cres[c] = "NotAFifo"
        /\ \A s \in Servers : spc[s] \in {"idle", "init", "check", "done"}
        /\ \A s \in Servers : spc[s] = "done" => sres[s] \in {"NotAFifo", "LockContended"}
        /\ readers = {} /\ writers = {} /\ buf = <<>>
        /\ seen = <<>> /\ \A c \in Callers : wrote[c] = <<>>

C10_NotAFifo == []C10_State /\ [][fkind = "regular" => fkind' = "regular"]_vars

C10_Witness ==
    /\ fkind = "regular"
    /\ \E c \in Callers : cres[c] = "NotAFifo"
    /\ \E s \in Servers : sres[s] = "NotAFifo"

\* ------------------------------------------------ claims: the status reader
LinesOf(kinds) == {FormatRecord(r) : r \in {q \in RecordInputs : q.k \in kinds}}

TerminalKinds == {"kill", "exit", "pid", "err"}

TerminalRead == \E i \in 1..Len(rlines) : rlines[i] \in LinesOf(TerminalKinds)

\* A terminal record has reached the status pipe: it was written while the
\* reader held the FIFO.
TerminalWritten ==
    \/ TerminalRead
    \/ \E i \in 1..Len(stbuf) : stbuf[i] \in LinesOf(TerminalKinds)

C6_NeverEarly == rpc \in {"finish", "done"} => TerminalRead

\* C6: WaitUntilDone returns if and only if a terminal record (kill, exit,
\* pid or err) has been written to the status pipe: it never returns while
\* only stop, cont or unknown records have been written, and once a terminal
\* record has been written it eventually returns.
C6_TerminatesIff ==
    /\ []C6_NeverEarly
    /\ TerminalWritten ~> (rpc = "done")

PidThenExit(e) == <<Rec("pid", 7), Rec("exit", e)>>

\* C7: when the in-container side reports pid P followed by exit E, the
\* result delivered has pid = P, exit_code = E and no signal codes, however
\* the two records are spread over the writer's opens of the status pipe.
C7_PidThenExit ==
    \A e \in {0, 3} :
        (script = PidThenExit(e) /\ rpc = "done") =>
            /\ handled = 1
            /\ store = [SignalCodes |-> <<>>, ExitCode |-> e, Pid |-> 7]

KillExitRead == {i \in 1..Len(rlines) : rlines[i] \in LinesOf({"kill", "exit"})}

\* C8: in the result delivered by the status reader, exit_code is -1 when
\* the kill-or-exit record that was read is kill N, and N is among the
\* signal codes; exit_code is N when that record is exit N.
C8_ExitCode ==
    \A r \in RecordInputs :
        ( /\ handled = 1
          /\ Cardinality(KillExitRead) = 1
          /\ \E i \in KillExitRead : rlines[i] = FormatRecord(r) ) =>
            /\ r.k = "kill" =>
                  /\ store.ExitCode = -1
                  /\ \E j \in 1..Len(store.SignalCodes) : store.SignalCodes[j] = r.n
            /\ r.k = "exit" => store.ExitCode = r.n

C8_Witness ==
    /\ handled = 1
    /\ rlines = <<FormatRecord(Rec("stop", 19)), FormatRecord(Rec("kill", 9))>>
    /\ store.ExitCode = -1
    /\ store.SignalCodes = <<19, 9>>

C8_WitnessExit ==
    /\ handled = 1
    /\ rlines = <<FormatRecord(Rec("pid", 7)), FormatRecord(Rec("exit", 3))>>
    /\ store.ExitCode = 3

ErrRead == \E i \in 1..Len(rlines) : rlines[i] \in LinesOf({"err"})

\* C9: once the reader has read an err record, HandleTerminate is not
\* invoked and WaitUntilDone returns the status error, whatever other
\* records were read before or after it.
C9_ErrRecord ==
    ErrRead =>
        /\ handled = 0
        /\ rpc = "done" => rres = "StatusError"

C9_Witness ==
    /\ rpc = "done"
    /\ rres = "StatusError"
    /\ Len(rlines) = 3
    /\ rlines[1] \in LinesOf({"pid"})
    /\ rlines[2] \in LinesOf({"err"})
    /\ rlines[3] \in LinesOf({"exit"})

\* --------------------------------------------- claims: the control verbs
\* The call found the FIFO, so that its open returned with a server holding
\* the FIFO open for reading.
Served(c) == cpc[c] = "done" /\ cres[c] \notin {"NoFifo", "NotAFifo"}

AliveCall(c) == creq[c].args = <<"@alive">> /\ ~creq[c].cb /\ ~cnb

\* C11: with a server serving the FIFO, a call of WaitUntilServerIsAlive (the
\* @alive request with no callback, on an endpoint in the blocking client
\* mode of its constructor) returns without error and has created
\* no temporary directory, status FIFO or capture file.
C11_AliveNoArtifacts ==
    \A c \in Callers :
        (AliveCall(c) /\ Served(c)) => (cres[c] = "ok" /\ ~ctmp[c])

RestartCall(d) == creq[d].args = <<"@restart">> /\ cres[d] = "ok"

Restarted(s) == \E i \in 1..Len(ran) : ran[i].s = s /\ ran[i].r = "restart"

AliveProcessed(c) ==
    \E i \in 1..Len(ran) : ran[i].r = "alive" /\ ran[i].f = Frame(c)

\* C12: a server that has processed @restart comes back to serving by
\* itself, and the @alive frame of a client that took the write lock after
\* the @restart frame's client released it is processed by the server.
C12_RestartThenAlive ==
    /\ \A s \in Servers : (Restarted(s) /\ spc[s] = "init") ~> Serving(s)
    /\ \A c, d \in Callers :
          (RestartCall(d) /\ AliveCall(c) /\ ReleasedBefore(d, c)) ~> AliveProcessed(c)

\* The server of entry i of ran dispatched nothing after it.
LastOfServer(i) == \A j \in 1..Len(ran) : j > i => ran[j].s # ran[i].s

\* C13: a frame whose first token is @exit is dispatched by the @exit case
\* only: the server releases the server lock and returns success, and it
\* runs no command of that frame or of any later frame.
C13_ExitStops ==
    \A i \in 1..Len(ran) :
        (ran[i].f # <<>> /\ ran[i].f[1].t = "@exit") =>
            /\ ran[i].r = "exit"
            /\ LastOfServer(i)
            /\ spc[ran[i].s] = "done"
            /\ sres[ran[i].s] = "ok"
            /\ ran[i].s \notin srvLock

\* A later frame of the batch was left undispatched by the return.
LeftInBatch(s) == sk[s] < Len(sargs[s]) /\ sargs[s][sk[s] + 1] # <<>>

C13_Witness ==
    \E i \in 1..Len(ran) :
        /\ ran[i].r = "exit"
        /\ LeftInBatch(ran[i].s)
        /\ sargs[ran[i].s][sk[ran[i].s] + 1][1].t \notin ControlVerbs

\* C14: the server returns on the first command whose execution fails, with
\* that command's error, releasing the lock; it dispatches no frame after the
\* failing one, the rest of the batch included.
C14_FirstFailureStops ==
    \A i \in 1..Len(ran) :
        ran[i].r = "failed" =>
            /\ LastOfServer(i)
            /\ spc[ran[i].s] = "done"
            /\ sres[ran[i].s] = "RunError"
            /\ ran[i].s \notin srvLock

C14_Witness ==
    \E i \in 1..Len(ran) :
        /\ ran[i].r = "failed"
        /\ LeftInBatch(ran[i].s)

\* ---------------------------------------------- the container: its probes
\* A directory of the read-only branch is seen under rootfs while a CoW mount
\* is on it; the rootfs directory that Create made is empty underneath.
Visible(d, m) == m > 0 /\ d \in env.dirs

\* DirExists(rootfs/etc), with m mounts on rootfs.
MountedAt(m) == Visible("/etc", m)

IsMounted == MountedAt(mnt)

\* DirExists(/cgroup/lxc/<name>)
IsRunning == run

IsCreated == {"rootfs", "meta", "private", "config", "fstab"} \subseteq cfs

\* The operation that has just returned: what the probes said at its call,
\* what it called on the way (ev) and what it returned (res).
Op(op, arg, res, ev) ==
    [op |-> op, arg |-> arg, res |-> res,
     pre |-> [created |-> IsCreated, mounted |-> IsMounted, running |-> IsRunning],
     ev |-> ev]

\* ------------------------------------------------ the container: its mount
\* The read-only branch handed to the mount exists.
SourceExists == env.img = "present" \/ (env.img = "none" /\ env.cache)

\* mount(2) of the CoW stack can succeed when its branches and its mount
\* point exist (f: the paths that exist, m: the mounts already stacked).
MountOutcomes(f, m) ==
    IF SourceExists /\ {"rootfs", "private"} \subseteq f /\ m < MaxMounts
    THEN BOOLEAN ELSE {FALSE}

\* Mount(): refused when IsMounted, else the result of the mount.
MountCall(m, ok) ==
    IF MountedAt(m) THEN [mnt |-> m, err |-> "AlreadyMounted", ev |-> <<"Mount">>]
    ELSE IF ok THEN [mnt |-> m + 1, err |-> "nil", ev |-> <<"Mount", "mount">>]
    ELSE [mnt |-> m, err |-> "MountError", ev |-> <<"Mount", "mount">>]

\* Remount(): MS_REMOUNT with image_set.rootfs when IsMounted (image_set nil
\* is dereferenced), Mount() otherwise.
RemountOutcomes(f, m) == IF MountedAt(m) THEN BOOLEAN ELSE MountOutcomes(f, m)

RemountCall(m, ok) ==
    IF MountedAt(m)
    THEN IF env.img = "none"
         THEN [mnt |-> m, err |-> "panic", ev |-> <<"Remount">>]
         ELSE [mnt |-> m, err |-> IF ok THEN "nil" ELSE "RemountError",
               ev |-> <<"Remount", "remount">>]
    ELSE LET r == MountCall(m, ok) IN [r EXCEPT !.ev = <<"Remount">> \o r.ev]

\* Unmount(): umount2(rootfs, MNT_DETACH) detaches the topmost mount, busy
\* or not; with no mount on rootfs it fails.
UnmountCall(m) ==
    IF m > 0 THEN [mnt |-> m - 1, err |-> "nil", ev |-> <<"umount">>]
    ELSE [mnt |-> m, err |-> "UnmountError", ev |-> <<"umount">>]

Mount ==
    /\ \E ok \in MountOutcomes(cfs, mnt) :
          LET r == MountCall(mnt, ok) IN
          /\ mnt' = r.mnt
          /\ lastOp' = Op("Mount", "", r.err, r.ev)
    /\ UNCHANGED <<cfs, run, fifos, env>>
    /\ UNCHANGED <<netVars, transportVars, statusVars, renderVars>>

Remount ==
    /\ \E ok \in RemountOutcomes(cfs, mnt) :
          LET r == RemountCall(mnt, ok) IN
          /\ mnt' = r.mnt
          /\ lastOp' = Op("Remount", "", r.err, r.ev)
    /\ UNCHANGED <<cfs, run, fifos, env>>
    /\ UNCHANGED <<netVars, transportVars, statusVars, renderVars>>

Unmount ==
    /\ LET r == UnmountCall(mnt) IN
          /\ mnt' = r.mnt
          /\ lastOp' = Op("Unmount", "", r.err, r.ev)
    /\ UNCHANGED <<cfs, run, fifos, env>>
    /\ UNCHANGED <<netVars, transportVars, statusVars, renderVars>>

\* ------------------------------------------- the container: Create, Delete
\* The tests of Create before it makes anything.
CreateRefusal ==
    IF "cdir" \in cfs THEN "DirExists"
    ELSE IF IsCreated THEN "AlreadyCreated"
    ELSE IF env.img = "missing" THEN "NoImageSet"
    ELSE IF env.img = "none" /\ env.cache THEN "NoCache"
    ELSE "nil"

\* WriteConfig writes the config file unless GetCgroupInfoBytes rejects a
\* key of Cgroup_info; WriteFstab writes the fstab.
WriteConfig(f) == IF env.cgroupOk THEN f \cup {"config"} ELSE f
WriteFstab(f) == f \cup {"fstab"}

\* The four Mkdir, Mount(), and after a mount that succeeded the three
\* writes, whose errors are dropped.
Create ==
    /\ IF CreateRefusal # "nil"
       THEN /\ lastOp' = Op("Create", "", CreateRefusal, <<>>)
            /\ UNCHANGED <<cfs, mnt>>
       ELSE LET f == cfs \cup {"cdir", "rootfs", "meta", "private"} IN
            \E ok \in MountOutcomes(f, mnt) :
               LET r == MountCall(mnt, ok) IN
               /\ mnt' = r.mnt
               /\ cfs' = IF r.err # "nil" THEN f ELSE WriteFstab(WriteConfig(f))
               /\ lastOp' = Op("Create", "", r.err, r.ev)
    /\ UNCHANGED <<run, fifos, env>>
    /\ UNCHANGED <<netVars, transportVars, statusVars, renderVars>>

\* Unmount() when IsMounted, the runtime's registry entry, Remove(rootfs)
\* (it fails on a mount point), RemoveAll(cdir).
Delete ==
    /\ IF ~IsCreated
       THEN /\ lastOp' = Op("Delete", "", "NotCreated", <<>>)
            /\ UNCHANGED <<cfs, mnt, fifos>>
       ELSE LET u == IF IsMounted THEN UnmountCall(mnt)
                     ELSE [mnt |-> mnt, err |-> "nil", ev |-> <<>>] IN
            /\ mnt' = u.mnt
            /\ IF u.err # "nil"
               THEN /\ lastOp' = Op("Delete", "", u.err, u.ev)
                    /\ UNCHANGED <<cfs, fifos>>
               ELSE IF u.mnt > 0
               THEN /\ lastOp' = Op("Delete", "", "RemoveError", u.ev \o <<"rmdir rootfs">>)
                    /\ UNCHANGED <<cfs, fifos>>
               ELSE /\ lastOp' = Op("Delete", "", "nil", u.ev \o <<"rmdir rootfs", "rm cdir">>)
                    /\ cfs' = {}
                    /\ fifos' = {}
    /\ UNCHANGED <<run, env>>
    /\ UNCHANGED <<netVars, transportVars, statusVars, renderVars>>

\* --------------------------------------------- the container: Start, Stop
\* The three tests of AdvancedStart, without the test of IsRunning.
StartRefusalNoRunning ==
    IF ~IsCreated THEN "NotCreated"
    ELSE IF ~IsMounted THEN "NotMounted"
    ELSE "nil"

\* The three tests of AdvancedStart, in the order of the code.
StartRefusal ==
    IF ~IsCreated THEN "NotCreated"
    ELSE IF ~IsMounted THEN "NotMounted"
    ELSE IF IsRunning THEN "AlreadyRunning"
    ELSE "nil"

\* A command FIFO is removed when its file exists, then created; mkfifo
\* succeeds when the home directory is there.
FifoEvents(u) ==
    (IF u \in fifos THEN <<"remove " \o u>> ELSE <<>>) \o <<"mkfifo " \o u>>

FifosCreated == {u \in FifoUsers : Visible(GetHomeDirectory(u), mnt)}

\* WaitUntilServerIsAlive on the root FIFO, then on the web FIFO.
AliveOutcomes ==
    { [res |-> "nil", ev |-> <<"alive root", "alive web">>],
      [res |-> "RootAliveError", ev |-> <<"alive root">>],
      [res |-> "WebAliveError", ev |-> <<"alive root", "alive web">>] }

AdvancedStart(blocked_start) ==
    /\ LET arg == IF blocked_start THEN "blocked" ELSE "" IN
       IF StartRefusal # "nil"
       THEN /\ lastOp' = Op("Start", arg, StartRefusal, <<>>)
            /\ UNCHANGED <<run, fifos>>
       ELSE LET fev == FifoEvents("root") \o FifoEvents("web") \o <<"lxc-start">> IN
            /\ fifos' = FifosCreated
            /\ \E ok \in BOOLEAN :
                  IF ~ok
                  THEN /\ lastOp' = Op("Start", arg, "StartError", fev)
                       /\ UNCHANGED run
                  ELSE /\ run' = TRUE
                       /\ IF blocked_start
                          THEN \E a \in AliveOutcomes :
                                  lastOp' = Op("Start", arg, a.res, fev \o a.ev)
                          ELSE lastOp' = Op("Start", arg, "nil", fev)
    /\ UNCHANGED <<cfs, mnt, env>>
    /\ UNCHANGED <<netVars, transportVars, statusVars, renderVars>>

\* lxc-stop; its failure is returned at once; after its success Remount()
\* is called and its error dropped.
Stop ==
    /\ \E ok \in BOOLEAN :
          IF ~ok
          THEN /\ lastOp' = Op("Stop", "", "StopError", <<"lxc-stop">>)
               /\ UNCHANGED <<run, mnt>>
          ELSE \E rok \in RemountOutcomes(cfs, mnt) :
                  LET r == RemountCall(mnt, rok) IN
                  /\ run' = FALSE
                  /\ mnt' = r.mnt
                  /\ lastOp' = Op("Stop", "", IF r.err = "panic" THEN "panic" ELSE "nil",
                                  <<"lxc-stop">> \o r.ev)
    /\ UNCHANGED <<cfs, fifos, env>>
    /\ UNCHANGED <<netVars, transportVars, statusVars, renderVars>>

\* ------------------------------------------------- the container: Execute
\* The home directory must exist under rootfs; root and web get a
\* FIFOCommand; for any other user the error is made and dropped,
\* fifo_command stays nil and the call on it dereferences nil.
DispatchOutcomes == {"nil", "CommandError"}

ExecuteImpl(user, blocked) ==
    /\ LET call == IF blocked THEN "ExecuteDaemonOnServerBlockOnClient"
                   ELSE "ExecuteDaemonOnServer" IN
       IF ~Visible(GetHomeDirectory(user), mnt)
       THEN lastOp' = Op("Execute", user, "NoHomeDirectory", <<>>)
       ELSE IF user \in FifoUsers
       THEN \E r \in DispatchOutcomes :
               lastOp' = Op("Execute", user, r, <<call \o " " \o user>>)
       ELSE lastOp' = Op("Execute", user, "panic", <<call \o " nil">>)
    /\ UNCHANGED <<cfs, mnt, run, fifos, env>>
    /\ UNCHANGED <<netVars, transportVars, statusVars, renderVars>>

\* ---------------------------------------- the container: its specification
ContainerInit ==
    /\ TransportIdle
    /\ StatusIdle
    /\ script = <<>>
    /\ cfs = {}
    /\ mnt = 0
    /\ run = FALSE
    /\ fifos = {}
    /\ env \in EnvInputs
    /\ lastOp = NoOp
    /\ NetIdle
    /\ RenderIdle

ContainerNext ==
    \/ Create
    \/ Mount
    \/ Remount
    \/ Unmount
    \/ Delete
    \/ \E b \in BOOLEAN : AdvancedStart(b)
    \/ Stop
    \/ \E u \in Users, b \in BOOLEAN : ExecuteImpl(u, b)

ContainerSpec == ContainerInit /\ [][ContainerNext]_vars

\* ------------------------------ the container: its network configuration
\* The container's name, and the texts a dhclient.conf is given: MaxWords
\* words at most, the placeholder among them.
Name == "box"
Placeholder == "<hostname>"
TextInputs == UNION {[1..n -> {Placeholder, "send"}] : n \in 0..MaxWords}
FileInputs == {NoFile} \cup {File(t) : t \in TextInputs}

\* strings.Replace(s, old_str, new_str, -1) on the words of a text.
Replace(text, old_str, new_str) ==
    [i \in 1..Len(text) |-> IF text[i] = old_str THEN new_str ELSE text[i]]

\* ReplaceAllInFile: the file is read, replaced in and written back with its
\* mode; a file that is not there makes ioutil.ReadFile fail.
ReplaceAllInFile(fs, filename, old_str, new_str) ==
    IF ~fs[filename].there
    THEN [fs |-> fs, err |-> "ReadError"]
    ELSE [fs |-> [fs EXCEPT ![filename] = File(Replace(@.text, old_str, new_str))],
          err |-> "nil"]

\* The file handed to ReplaceAllInFile, in the branch of either file found:
\* dhclient_path1.
DhcpTarget(found) == "dhcp"

\* /etc/hostname and /etc/hosts are written, each error returned at once;
\* then the placeholder is replaced in a dhclient.conf, or the error of none
\* being there is returned.
WriteNetworkConfiguration ==
    /\ netres = "none"
    /\ IF ~netfs.etc
       THEN /\ netres' = "WriteError"
            /\ netfs' = netfs
       ELSE LET fs == [netfs EXCEPT !.hostname = File(<<Name>>),
                                   !.hosts = File(<<"127.0.0.1", "localhost", Name>>)]
                found == IF fs.dhcp.there THEN "dhcp"
                         ELSE IF fs.dhcp3.there THEN "dhcp3" ELSE "none"
            IN IF found = "none"
               THEN /\ netres' = "DhcpConfigMissing"
                    /\ netfs' = fs
               ELSE LET r == ReplaceAllInFile(fs, DhcpTarget(found), Placeholder, Name)
                    IN /\ netres' = r.err
                       /\ netfs' = r.fs
    /\ UNCHANGED <<cfs, mnt, run, fifos, env, lastOp>>
    /\ UNCHANGED <<transportVars, statusVars, renderVars>>

NetInit ==
    /\ TransportIdle
    /\ StatusIdle
    /\ script = <<>>
    /\ cfs = {}
    /\ mnt = 0
    /\ run = FALSE
    /\ fifos = {}
    /\ env = [img |-> "present", cache |-> TRUE,
              dirs |-> {"/etc", "/root", "/home/web"}, cgroupOk |-> TRUE]
    /\ lastOp = NoOp
    /\ netfs \in {fs \in [etc : BOOLEAN, hostname : {NoFile}, hosts : {NoFile},
                            dhcp : FileInputs, dhcp3 : FileInputs] :
                      ~fs.etc => (fs.dhcp = NoFile /\ fs.dhcp3 = NoFile)}
    /\ netres = "none"
    /\ RenderIdle

NetNext == WriteNetworkConfiguration

NetSpec == NetInit /\ [][NetNext]_vars

\* ------------------------------------------- claims: the container lifecycle
\* C15: after any sequence of completed lifecycle operations, whatever each
\* returned, a container that IsMounted reports also IsCreated reports: its
\* rootfs, meta and private-data directories and its config and fstab files
\* all exist.
C15_MountedIsCreated == IsMounted => IsCreated

\* C16: after any sequence of completed lifecycle operations a container
\* that IsRunning reports also IsMounted reports: no operation leaves a
\* running container with its rootfs not mounted.
C16_RunningIsMounted == IsRunning => IsMounted

\* C17: when Create has returned success the container is created and
\* mounted (IsCreated and IsMounted report true, rootfs/etc is visible), and
\* when Unmount has returned success IsMounted reports false.
Returned(op, res) == lastOp.op = op /\ lastOp.res = res

C17_CreateThenUnmount ==
    /\ Returned("Create", "nil") => (IsCreated /\ IsMounted)
    /\ Returned("Unmount", "nil") => ~IsMounted

\* The half about Unmount alone.
C17_UnmountHalf == Returned("Unmount", "nil") => ~IsMounted

\* C18: Start, blocked or not, called on a container that is not created, or
\* not mounted, or running, returns an error, does not invoke the container
\* runtime and neither removes nor creates a command FIFO.
StartErrors == {"NotCreated", "NotMounted", "AlreadyRunning"}

C18_StartRequires ==
    [][(lastOp'.op = "Start" /\ ~(IsCreated /\ IsMounted /\ ~IsRunning)) =>
          /\ lastOp'.res \in StartErrors
          /\ lastOp'.ev = <<>>
          /\ fifos' = fifos
          /\ run' = run]_vars

\* A blocked start was refused on a running container that has its FIFOs.
C18_Witness ==
    /\ lastOp.op = "Start"
    /\ lastOp.arg = "blocked"
    /\ lastOp.pre.running
    /\ lastOp.res = "AlreadyRunning"
    /\ fifos = FifoUsers
    /\ run

\* C19: in every execution of Stop the runtime's stop is invoked and a call
\* of Remount follows it, whether the runtime's stop succeeded or failed.
C19_StopRemounts ==
    lastOp.op = "Stop" =>
        \E i, j \in 1..Len(lastOp.ev) :
            i < j /\ lastOp.ev[i] = "lxc-stop" /\ lastOp.ev[j] = "Remount"

\* C20: Execute for a user that is not root or web, or for a user whose home
\* directory does not exist under rootfs, returns an error value and calls no
\* dispatch on any command FIFO: it neither writes a frame nor crashes.
ExecuteErrors == {"NoSuchUser", "NoHomeDirectory"}

C20_ExecuteRefuses ==
    (/\ lastOp.op = "Execute"
     /\ \/ lastOp.arg \notin FifoUsers
        \/ ~Visible(GetHomeDirectory(lastOp.arg), mnt)) =>
        (lastOp.res \in ExecuteErrors /\ lastOp.ev = <<>>)

\* The half about the home directory alone.
C20_HomeMissing ==
    (lastOp.op = "Execute" /\ ~Visible(GetHomeDirectory(lastOp.arg), mnt)) =>
        (lastOp.res = "NoHomeDirectory" /\ lastOp.ev = <<>>)

\* C21: Create fails, making no directory or file and no mount, when the
\* container's directory (or a created container) is already there or when
\* its image set does not exist; and when neither is the case and the
\* read-only branch it would mount exists, Create is not refused by its
\* tests.
CreateRefusals == {"DirExists", "AlreadyCreated", "NoImageSet", "NoCache"}

CreateBlocked == "cdir" \in cfs \/ IsCreated \/ env.img = "missing"

C21_CreatePreconditions ==
    [][lastOp'.op = "Create" =>
          /\ CreateBlocked =>
                /\ lastOp'.res \in CreateRefusals
                /\ lastOp'.ev = <<>>
                /\ cfs' = cfs
                /\ mnt' = mnt
          /\ (~CreateBlocked /\ SourceExists) => lastOp'.res \notin CreateRefusals]_vars

\* The half about the refusals alone.
C21_RefusalMakesNothing ==
    [][(lastOp'.op = "Create" /\ CreateBlocked) =>
          /\ lastOp'.res \in CreateRefusals
          /\ lastOp'.ev = <<>>
          /\ cfs' = cfs
          /\ mnt' = mnt]_vars

\* ------------------------------------------------ cgroups.go: the renderer
\* The valid configuration keys, in the order of the code.
GetCGroupKeys ==
    << "lxc.utsname", "lxc.tty", "lxc.pts", "lxc.devttydir", "lxc.rootfs",
       "lxc.rootfs.mount", "lxc.mount", "lxc.arch", "lxc.cap.drop", "lxc.pivotdir",
       "lxc.network.type", "lxc.network.flags", "lxc.network.name",
       "lxc.network.link", "lxc.network.macvlan.mode", "lxc.network.hwaddr",
       "lxc.network.ipv4", "lxc.network.ipv4.gateway", "lxc.network.ipv6",
       "lxc.network.ipv6.gateway", "lxc.network.vlan.id", "lxc.network.mtu",
       "lxc.network.script.up", "lxc.network.veth.pair", "lxc.cgroup.devices.deny",
       "lxc.cgroup.devices.allow", "lxc.cgroup.cpu.shares",
       "lxc.cgroup.memory.force_empty", "lxc.cgroup.memory.limit_in_bytes",
       "lxc.cgroup.memory.memsw.limit_in_bytes",
       "lxc.cgroup.memory.move_charge_at_immigrate", "lxc.cgroup.memory.oom_control",
       "lxc.cgroup.memory.soft_limit_in_bytes", "lxc.cgroup.memory.swappiness",
       "lxc.cgroup.memory.usage_in_bytes", "lxc.cgroup.memory.use_hierarchy",
       "lxc.cgroup.cpuset.cpu_exclusive", "lxc.cgroup.cpuset.cpus",
       "lxc.cgroup.cpuset.mem_exclusive", "lxc.cgroup.cpuset.mem_hardwall",
       "lxc.cgroup.cpuset.memory_migrate", "lxc.cgroup.cpuset.memory_spread_page",
       "lxc.cgroup.cpuset.memory_spread_slab", "lxc.cgroup.cpuset.mems",
       "lxc.cgroup.cpuset.sched_load_balance",
       "lxc.cgroup.cpuset.sched_relax_domain_level", "lxc.cgroup.blkio.reset_stats",
       "lxc.cgroup.blkio.sectors", "lxc.cgroup.blkio.throttle.read_bps_device",
       "lxc.cgroup.blkio.throttle.read_iops_device",
       "lxc.cgroup.blkio.throttle.write_bps_device",
       "lxc.cgroup.blkio.throttle.write_iops_device", "lxc.cgroup.blkio.weight",
       "lxc.cgroup.blkio.weight_device" >>

\* keyset of GetCGroupKeyArrayAndSet
GetCGroupKeySet == {GetCGroupKeys[i] : i \in 1..Len(GetCGroupKeys)}

\* The CgroupInfo values rendered here: any of four keys, one of them not a
\* configuration key, each with a list of MaxValues values at most (the
\* empty list stands for nil too); values hold no newline.
KeyInputs == {"lxc.tty", "lxc.utsname", "lxc.cgroup.devices.allow", "lxc.bogus"}
ValueInputs == {"a", "b"}
ValueLists == UNION {[1..n -> ValueInputs] : n \in 0..MaxValues}
CgroupInfoInputs == UNION {[D -> ValueLists] : D \in SUBSET KeyInputs}

\* fmt.Sprintf("%s = %s\n", key, value): one line of the output, without its
\* newline.
Line(key, value) == key \o " = " \o value

\* The inner loop, with only the first value of a list rendered.
RenderValuesFirst(key, value_list) ==
    IF value_list = <<>> THEN <<>> ELSE <<Line(key, Head(value_list))>>

\* The inner loop: the lines of one key, over its value list.
RECURSIVE RenderValues(_, _)
RenderValues(key, value_list) ==
    IF value_list = <<>> THEN <<>>
    ELSE <<Line(key, Head(value_list))>> \o RenderValues(key, Tail(value_list))

\* The outer loop, over the list of valid keys: info[key] of a key that the
\* map does not hold is nil.
RECURSIVE RenderKeys(_, _)
RenderKeys(info, keys) ==
    IF keys = <<>> THEN <<>>
    ELSE (IF Head(keys) \in DOMAIN info
          THEN RenderValues(Head(keys), info[Head(keys)]) ELSE <<>>)
         \o RenderKeys(info, Tail(keys))

\* The validation loop with every key taken for valid.
InvalidKeysNone(info) == {}

\* The keys on which the validation loop can return: it ranges over the map
\* in the order of the runtime and returns at the first key that is not in
\* keyset.
InvalidKeys(info) == DOMAIN info \ GetCGroupKeySet

\* A byte slice: nil, or the lines appended to the buffer.
NilBytes == [nil |-> TRUE, lines |-> <<>>]
Bytes(lines) == [nil |-> FALSE, lines |-> lines]

\* The results a call can return: nil and the error that names an invalid
\* key, or the buffer and no error.
GetCgroupInfoBytes(info) ==
    IF InvalidKeys(info) # {}
    THEN {[bytes |-> NilBytes, err |-> "invalid lxc configuration key: " \o k] :
             k \in InvalidKeys(info)}
    ELSE {[bytes |-> Bytes(RenderKeys(info, GetCGroupKeys)), err |-> "nil"]}

Render ==
    /\ Len(rendered) < MaxRenders
    /\ \E r \in GetCgroupInfoBytes(cginfo) : rendered' = Append(rendered, r)
    /\ UNCHANGED cginfo
    /\ UNCHANGED <<transportVars, statusVars, containerVars>>

RenderInit ==
    /\ TransportIdle
    /\ StatusIdle
    /\ script = <<>>
    /\ ContainerIdle
    /\ cginfo \in CgroupInfoInputs
    /\ rendered = <<>>

RenderNext == Render

RenderSpec == RenderInit /\ [][RenderNext]_vars

\* ------------------------------------------------- claims: the renderer
\* C22: GetCgroupInfoBytes returns an invalid-key error and no bytes for
\* every mapping that holds a key outside the list of GetCGroupKeys, and
\* bytes and no error for every mapping whose keys are all in that list.
Listed(k) == \E i \in 1..Len(GetCGroupKeys) : GetCGroupKeys[i] = k

AllListed == \A k \in DOMAIN cginfo : Listed(k)

C22_WitnessValid ==
    /\ rendered # <<>>
    /\ DOMAIN cginfo = {"lxc.tty", "lxc.utsname"}
    /\ ~rendered[1].bytes.nil
    /\ rendered[1].bytes.lines # <<>>

\* C23: for a mapping whose keys are all listed, the output is one line
\* `key = value` for each value of each key, the keys in the order of the
\* list of GetCGroupKeys and the values of a key in the order of its list;
\* and two calls on the same mapping return the same output.
PairsOf(info) ==
    {p \in (1..Len(GetCGroupKeys)) \X (1..MaxValues) :
        /\ GetCGroupKeys[p[1]] \in DOMAIN info
        /\ p[2] <= Len(info[GetCGroupKeys[p[1]]])}

PairBefore(p, q) == p[1] < q[1] \/ (p[1] = q[1] /\ p[2] < q[2])

Rank(p, pairs) == 1 + Cardinality({q \in pairs : PairBefore(q, p)})

ExpectedHeader(req) ==
    IF IsControl(req.args[1]) THEN <<>>
    ELSE <<"iexec">> \o
         (IF req.cb THEN <<"-s", "status">> ELSE <<>>) \o
         (IF req.cb /\ req.out THEN <<"-o", "stdout">> ELSE <<>>) \o
         (IF req.cb /\ req.err THEN <<"-e", "stderr">> ELSE <<>>) \o
         <<"--">>

ExpectedTokens(req) == ExpectedHeader(req) \o req.args \o <<Sentinel>>

\* Every write of the call reached the FIFO, the sentinel included.
AllWritten(c) == cpc[c] = "done" /\ Len(wrote[c]) = Len(Frame(c)) + 1

C24_TokenSequence ==
    \A c \in Callers :
        AllWritten(c) => [i \in 1..Len(wrote[c]) |-> wrote[c][i].t] = ExpectedTokens(creq[c])

\* The half about the control verbs and about requests with a callback.
C24_WithCallbackOrControl ==
    \A c \in Callers :
        (AllWritten(c) /\ (creq[c].cb \/ IsControl(creq[c].args[1]))) =>
            [i \in 1..Len(wrote[c]) |-> wrote[c][i].t] = ExpectedTokens(creq[c])

\* C25: every token a client writes to the command FIFO, the sentinel
\* included, is written while that client holds the exclusive lock on the
\* FIFO, and at most one client holds that lock in any state.
Writing(c) == cpc[c] \in {"hdr", "args", "sent", "fsent"}

C25_WritesUnderLock ==
    /\ [](Cardinality(cmdLock) <= 1)
    /\ [](\A c \in Callers : Writing(c) => c \in cmdLock)
    /\ [][\A c \in Callers : wrote'[c] # wrote[c] => (c \in cmdLock /\ c \in cmdLock')]_vars

\* A client is in the middle of its frame while another waits for the lock.
C25_Witness ==
    \E c, d \in Callers :
        /\ c # d
        /\ cpc[c] = "args" /\ wrote[c] # <<>> /\ c \in cmdLock
        /\ cpc[d] = "lock" /\ d \in writers

\* C26: when a client call that acquired the write lock has returned, on the
\* success path and on every error path alike, that client has released the
\* lock and closed the command FIFO.
Acquired(c) == \E n \in 1..Len(lockLog) : lockLog[n] = <<"acq", c>>

C26_ReleasedOnReturn ==
    \A c \in Callers :
        (cpc[c] = "done" /\ Acquired(c)) => (c \notin cmdLock /\ c \notin writers)

\* The success path alone: the return after the sentinel of the normal path.
C26_SuccessPath ==
    [][\A c \in Callers :
          (cpc[c] = "unlock" /\ cpc'[c] = "done") =>
              (c \notin cmdLock' /\ c \notin writers')]_vars

\* C27: when a token write fails in the middle of a frame, in the header or
\* in the argv, the client still writes the sentinel before it returns, and
\* what it returns is an error: never success after a failed token write.
TokensWritten(c) == SelectSeq(wrote[c], LAMBDA w : w.t # Sentinel)

\* The call returned after the lock with a token of its frame not written.
FailedWrite(c) ==
    cpc[c] = "done" /\ Acquired(c) /\ Len(TokensWritten(c)) < Len(Frame(c))

C27_SentinelThenError ==
    /\ [][\A c \in Callers :
             (cpc[c] \in {"hdr", "args", "sent", "fsent", "unlock"} /\ cpc'[c] = "done") =>
                 cpc[c] \in {"fsent", "unlock"}]_vars
    /\ [](\A c \in Callers : FailedWrite(c) => cres[c] = "WriteError")

\* The half about the return value alone.
C27_NeverSuccess == \A c \in Callers : FailedWrite(c) => cres[c] = "WriteError"

\* C28: one client call never writes its frame more than once: at most one
\* sentinel and at most one copy of the frame's tokens, in their order,
\* reach the FIFO per call, whatever happened at the lock.
RECURSIVE IsSubSeq(_, _)
IsSubSeq(a, b) ==
    IF a = <<>> THEN TRUE
    ELSE IF b = <<>> THEN FALSE
    ELSE IF Head(a) = Head(b) THEN IsSubSeq(Tail(a), Tail(b))
    ELSE IsSubSeq(a, Tail(b))

C28_FrameAtMostOnce ==
    \A c \in Callers :
        /\ Cardinality({i \in 1..Len(wrote[c]) : wrote[c][i].t = Sentinel}) <= 1
        /\ IsSubSeq(wrote[c], FullFrame(c))
        /\ ~Acquired(c) => wrote[c] = <<>>

\* A client that had to wait for the lock wrote its whole frame, once, after
\* the holder had written its own.
C28_Witness ==
    \E c, d \in Callers :
        /\ c # d
        /\ ReleasedBefore(d, c)
        /\ AllWritten(c) /\ AllWritten(d)
        /\ ~IsControl(creq[c].args[1])

\* ------------------------------------------------ claims: the server's loop
\* C29: the server dispatches no frame of a batch before it has seen EOF on
\* its current open of the command FIFO; after EOF it takes the accumulated
\* frames in the order they arrived, one after the other.
IsPrefix(a, b) == Len(a) <= Len(b) /\ SubSeq(b, 1, Len(a)) = a

\* The lists read so far stay as they are; only the last one may grow.
Extends(old, new) ==
    /\ Len(old) <= Len(new)
    /\ \A i \in 1..(Len(old) - 1) : new[i] = old[i]
    /\ IsPrefix(old[Len(old)], new[Len(old)])

C29_DispatchAfterEOF ==
    /\ [][ran' # ran =>
             LET s == ran'[Len(ran')].s IN
             /\ Len(ran') = Len(ran) + 1
             /\ spc[s] = "dispatch"
             /\ s \notin readers
             /\ ran'[Len(ran')].f = sargs[s][sk[s]]
             /\ sargs'[s] = sargs[s]]_vars
    /\ [][\A s \in Servers :
             /\ sk'[s] # sk[s] =>
                   \/ spc[s] = "dispatch" /\ sk'[s] = sk[s] + 1
                   \/ spc[s] = "eof" /\ sk'[s] = 1
             /\ (spc[s] = "read" /\ spc'[s] = "read") => Extends(sargs[s], sargs'[s])
             /\ spc[s] \in {"eof", "dispatch"} /\ spc'[s] \in {"eof", "dispatch"} =>
                   sargs'[s] = sargs[s]]_vars

\* Two frames arrived in one batch and the server has dispatched both, the
\* first one first.
C29_Witness ==
    \E s \in Servers :
        /\ spc[s] = "dispatch"
        /\ sk[s] = 3
        /\ Len(sargs[s]) = 3
        /\ Len(ran) >= 2
        /\ ran[Len(ran) - 1] = [s |-> s, f |-> sargs[s][1], r |-> "run"]
        /\ ran[Len(ran)].f = sargs[s][2]
        /\ sargs[s][1] # sargs[s][2]

\* C30: the server leaves SERVING only by processing @exit (it returns
\* success), by processing @restart (it is back before its lock) or by a
\* command that failed (it returns that error); processing any other frame,
\* @alive included, leaves it serving and holding the server lock.
LastRan(s, branch) ==
    /\ Len(ran') = Len(ran) + 1
    /\ ran'[Len(ran')].s = s
    /\ ran'[Len(ran')].r = branch

LeavesByFrame(s) ==
    \/ LastRan(s, "exit") /\ spc'[s] = "done" /\ sres'[s] = "ok"
    \/ LastRan(s, "restart") /\ spc'[s] = "init"
    \/ LastRan(s, "failed") /\ spc'[s] = "done" /\ sres'[s] = "RunError"

\* The return at the top of the loop: the path exists and is not a FIFO.
LeavesByPath(s) ==
    /\ spc[s] = "check"
    /\ FileExists(fkind) /\ ~IsFIFO(fkind)
    /\ ran' = ran
    /\ spc'[s] = "done" /\ sres'[s] = "NotAFifo"

StaysOnFrame(s) ==
    (LastRan(s, "alive") \/ LastRan(s, "run")) =>
        (Serving(s) /\ spc'[s] = "dispatch" /\ s \in srvLock /\ s \in srvLock')

C30_WitnessBadPath == \E s \in Servers : spc[s] = "done" /\ sres[s] = "NotAFifo"


\* ---------------------------------------------------- claims C31 to C40
ReadEventOf(f) == IF f = "stdout" THEN "read stdout" ELSE "read stderr"

RemoveEventOf(f) ==
    IF f = "status" THEN "remove status"
    ELSE IF f = "stdout" THEN "remove stdout"
    ELSE IF f = "stderr" THEN "remove stderr"
    ELSE "remove tmp"

Positions(e) == {i \in 1..Len(rlog) : rlog[i] = e}

\* WaitUntilDone has returned after a terminal record that was not err.
TerminalSuccess == rpc = "done" /\ ~ErrOccurred(rst)

\* C31: after a terminal record other than err the reader reads each capture
\* file it was given, then invokes the completion handler once, and only
\* then removes the status FIFO, the capture files and the directory; when
\* it returns success none of these paths exists.
C31_ReadHandleThenRemove ==
    TerminalSuccess =>
        /\ handled = 1
        /\ \A f \in CaptureFiles(capt) : Positions(ReadEventOf(f)) # {}
        /\ \A f \in CaptureFiles(capt) :
              \A i \in Positions(ReadEventOf(f)) :
                 \A h \in Positions("HandleTerminate") : i < h
        /\ \A f \in StatusArtifacts(capt) :
              /\ Positions(RemoveEventOf(f)) # {}
              /\ \A i \in Positions(RemoveEventOf(f)) :
                    \A h \in Positions("HandleTerminate") : h < i
        /\ rres = "ok" => arts = {}

C31_Witness ==
    /\ TerminalSuccess
    /\ capt.out /\ capt.err
    /\ rres = "ok"
    /\ arts = {}

\* The status reader ran in the background and returned an error.
BackgroundError == rpc = "done" /\ ~capt.block /\ rres # "ok"

\* C32: when the callback does not ask for blocking and the background
\* reader returns an error, the callback's error handler is invoked with
\* that reader's error.
C32_ErrorRouted == BackgroundError => herr = rres

\* The error handler is invoked when the background reader fails, and only
\* then.
C32_HandlerInvoked == (rpc = "done" /\ ~capt.block) => (herr # "none" <=> rres # "ok")

\* C40: the completion handler is invoked at most once for a request, and
\* an invocation of the status reader that returns an error has not invoked
\* it.
C40_ResultOrError ==
    /\ handled <= 1
    /\ (rpc = "done" /\ rres # "ok") => handled = 0

\* The completion handler is invoked at most once, and only by a reader
\* that got past its loop without an err record.
C40_AtMostOnce ==
    /\ handled <= 1
    /\ handled = 1 => TerminalSuccess

\* Client c, calling with a callback, has returned an error of the steps
\* before its first write: the path test or the lock.
FailedBeforeWriting(c) ==
    /\ cpc[c] = "done"
    /\ creq[c].cb
    /\ cres[c] \in {"NoFifo", "NotAFifo", "LockContended"}
    /\ wrote[c] = <<>>

\* C39: a call with a callback that fails before writing any token leaves no
\* status artifacts: its temporary directory and status FIFO do not exist
\* after it has returned the error.
C39_NoArtifactsLeft == \A c \in Callers : FailedBeforeWriting(c) => ~ctmp[c]

\* Server s has the command FIFO open for reading, or is dispatching what
\* it read.
ReadingOrDispatching(s) == spc[s] \in {"openwait", "read", "eof", "dispatch"}

\* C36: a server opens the command FIFO for reading or dispatches a frame
\* only while it holds the exclusive lock on the lock file: every failure
\* of the lock acquisition keeps it out of the read loop.
C36_ServesUnderLock == \A s \in Servers : ReadingOrDispatching(s) => s \in srvLock

\* The list was completed by a sentinel when the server read it.
SentinelTerminated(list) == \E j \in 1..Len(seen) : seen[j] = list

\* All tokens of the list were written by one client.
OneOwner(list) == \A i, j \in 1..Len(list) : list[i].o = list[j].o

\* Every list a server has dispatched was terminated by a sentinel.
C37_OnlyTerminated == \A i \in 1..Len(ran) : SentinelTerminated(ran[i].f)

\* No list a server has dispatched holds tokens of more than one client.
C37_NeverMerged == \A i \in 1..Len(ran) : OneOwner(ran[i].f)

\* C37: the server executes only token sequences that were terminated by
\* the sentinel: tokens read before EOF with no sentinel after them are never
\* executed and never become part of another client's frame.
C37_OnlySentinelFrames == C37_OnlyTerminated /\ C37_NeverMerged

\* The call of client c returned success: its frame was accepted.
Accepted(c) == cpc[c] = "done" /\ cres[c] = "ok"

\* A server has dispatched the frame of client c: run it, or taken it as a
\* control verb.
FrameDispatched(c) == \E i \in 1..Len(ran) : ran[i].f = Frame(c)

\* A server has dispatched @exit or a command that failed.
ServerStopped == \E i \in 1..Len(ran) : ran[i].r \in {"exit", "failed"}

\* C38: no accepted frame is lost: the frame of every client whose call
\* returned success is dispatched in the end, unless a server has dispatched
\* @exit or a failing command before.
C38_AcceptedIsDispatched ==
    \A c \in Callers : Accepted(c) ~> (FrameDispatched(c) \/ ServerStopped)

\* A server has read the frame of client c up to its sentinel.
FrameRead(c) == \E i \in 1..Len(seen) : seen[i] = Frame(c)

\* C33: BlockedStart reports success only after the command server of each
\* user has read the @alive frame sent on that user's FIFO: no call of
\* WaitUntilServerIsAlive, whose success BlockedStart returns, has returned
\* success while the server has not read its @alive frame.
C33_AliveWasRead ==
    \A c \in Callers : (AliveCall(c) /\ Accepted(c)) => FrameRead(c)

\* The last operation was a Start that invoked the runtime.
RuntimeInvoked ==
    /\ lastOp.op = "Start"
    /\ \E i \in 1..Len(lastOp.ev) : lastOp.ev[i] = "lxc-start"

\* C34: when Start passes its preconditions the command FIFO of root and of
\* web exists as a FIFO before the runtime is invoked: Start does not invoke
\* the runtime while either path is missing or not a FIFO.
C34_FifosBeforeRuntime == RuntimeInvoked => FifoUsers \subseteq fifos

\* When the home directories of root and web are there, both FIFOs exist
\* when the runtime is invoked.
C34_WithHomes ==
    (RuntimeInvoked /\ \A u \in FifoUsers : Visible(GetHomeDirectory(u), mnt)) =>
        FifoUsers \subseteq fifos

\* The dhclient.conf that is there: /etc/dhcp first, else /etc/dhcp3.
DhcpFound ==
    IF netfs.dhcp.there THEN "dhcp" ELSE IF netfs.dhcp3.there THEN "dhcp3" ELSE "none"

\* The text with the name in the place of every placeholder, nothing else
\* changed.
Substituted(before, after) ==
    /\ Len(after) = Len(before)
    /\ \A i \in 1..Len(before) :
          after[i] = (IF before[i] = Placeholder THEN Name ELSE before[i])

\* C35: called on a rootfs whose /etc can be written, WriteNetworkConfiguration
\* replaces the placeholder in the dhclient.conf that exists (/etc/dhcp, else
\* /etc/dhcp3) and succeeds; it fails with the error of the missing DHCP
\* configuration only when neither file exists.
C35_SubstitutesInExisting ==
    [][(netres = "none" /\ netres' # "none" /\ netfs.etc) =>
          IF DhcpFound = "none"
          THEN netres' = "DhcpConfigMissing"
          ELSE /\ netres' = "nil"
               /\ Substituted(netfs[DhcpFound].text, netfs'[DhcpFound].text)]_vars

\* With /etc/dhcp/dhclient.conf there the placeholder is replaced in it and
\* the call succeeds; the missing-configuration error is returned only when
\* neither file is there.
C35_FirstPathOnly ==
    [][(netres = "none" /\ netres' # "none" /\ netfs.etc) =>
          /\ netfs.dhcp.there =>
                (netres' = "nil" /\ Substituted(netfs.dhcp.text, netfs'.dhcp.text))
          /\ netres' = "DhcpConfigMissing" => DhcpFound = "none"]_vars

====
